---- MODULE Spec2Model ----
(***************************************************************************)
(* A model of SigmaChanBot (src/bot.py, src/config.py): the four JSON      *)
(* record stores, the topic and group resolution helpers and the command   *)
(* handlers that use them.                                                 *)
(*                                                                         *)
(* Python strings are modelled as sequences of one-character strings, so   *)
(* that strip / lower / split / isdigit / int are computed character by    *)
(* character.  Python integers that exceed 32 bits (chat and user ids) are *)
(* modelled as canonical decimal numerals (an optional "-" followed by     *)
(* digits without leading zeros); small integers (topic ids, list          *)
(* positions, inbox indices, timestamps) are TLA+ integers.                *)
(***************************************************************************)
EXTENDS Integers, Sequences, FiniteSets, TLC

\* ------------------------------------------------------------------------
\* Python string primitives
\* ------------------------------------------------------------------------

\* Optional values: None is the empty tuple and Some(v) the one-element tuple,
\* so that an Optional[int] compares with None without a type clash
None == <<>>

Some(v) == <<v>>

DigitChars == <<"0", "1", "2", "3", "4", "5", "6", "7", "8", "9">>

Digits == {DigitChars[i] : i \in 1..10}

DigitVal(c) == (CHOOSE i \in 1..10 : DigitChars[i] = c) - 1

UpperChars == <<"A", "B", "C", "D", "E", "F", "G", "H", "I", "J", "K", "L", "M",
                "N", "O", "P", "Q", "R", "S", "T", "U", "V", "W", "X", "Y", "Z">>

LowerChars == <<"a", "b", "c", "d", "e", "f", "g", "h", "i", "j", "k", "l", "m",
                "n", "o", "p", "q", "r", "s", "t", "u", "v", "w", "x", "y", "z">>

Whitespace == {" ", "\t"}

QuoteChars == {"\"", "'"}

\* str.lower() on one character
LowerCh(c) ==
    IF \E i \in 1..26 : UpperChars[i] = c
    THEN LowerChars[CHOOSE i \in 1..26 : UpperChars[i] = c]
    ELSE c

\* str.lower()
PyLower(s) == [i \in 1..Len(s) |-> LowerCh(s[i])]

\* the least and the greatest element of a non-empty set of integers
MinOf(S) == CHOOSE i \in S : \A j \in S : i <= j

MaxOf(S) == CHOOSE i \in S : \A j \in S : j <= i

\* str.strip(chars): drop the leading and the trailing characters that are in cs
PyStripChars(s, cs) ==
    LET Cut(keep) == IF keep = {} THEN <<>> ELSE SubSeq(s, MinOf(keep), MaxOf(keep))
    IN  Cut({i \in 1..Len(s) : s[i] \notin cs})

\* str.lstrip(chars)
PyLStripChars(s, cs) ==
    LET Cut(keep) == IF keep = {} THEN <<>> ELSE SubSeq(s, MinOf(keep), Len(s))
    IN  Cut({i \in 1..Len(s) : s[i] \notin cs})

\* str.strip()
PyStrip(s) == PyStripChars(s, Whitespace)

\* str.startswith(p)
PyStartsWith(s, p) == Len(s) >= Len(p) /\ SubSeq(s, 1, Len(p)) = p

\* str.isdigit() (ASCII digits)
PyIsDigit(s) == Len(s) > 0 /\ \A i \in 1..Len(s) : s[i] \in Digits

\* str.split(sep) with an explicit one-character separator: empty parts are kept
RECURSIVE PySplitOn(_, _)
PySplitOn(s, sep) ==
    LET At(hits) ==
            IF hits = {} THEN <<s>>
            ELSE <<SubSeq(s, 1, MinOf(hits) - 1)>>
                 \o PySplitOn(SubSeq(s, MinOf(hits) + 1, Len(s)), sep)
    IN  At({i \in 1..Len(s) : s[i] = sep})

\* str.split(maxsplit=n): split on runs of whitespace; leading whitespace is
\* skipped; once n splits are made the rest is kept whole, with its leading
\* whitespace dropped and its trailing whitespace kept
RECURSIVE PySplit(_, _)
PySplit(s, maxsplit) ==
    LET At(t, ws) ==
            IF t = <<>> THEN <<>>
            ELSE IF maxsplit = 0 THEN <<t>>
            ELSE IF ws = {} THEN <<t>>
            ELSE <<SubSeq(t, 1, MinOf(ws) - 1)>>
                 \o PySplit(SubSeq(t, MinOf(ws), Len(t)), maxsplit - 1)
        Skip(t) == At(t, {i \in 1..Len(t) : t[i] \in Whitespace})
    IN  Skip(PyLStripChars(s, Whitespace))

\* str.split() without a limit
PySplitAll(s) == PySplit(s, Len(s))

\* ------------------------------------------------------------------------
\* Python integers
\* ------------------------------------------------------------------------

\* the value of a digit string as a TLA+ integer (short strings only)
RECURSIVE DigitsValue(_)
DigitsValue(d) ==
    IF d = <<>> THEN 0
    ELSE 10 * DigitsValue(SubSeq(d, 1, Len(d) - 1)) + DigitVal(d[Len(d)])

\* the digit string of a natural number
RECURSIVE NatDigits(_)
NatDigits(n) ==
    IF n < 10 THEN <<DigitChars[n + 1]>>
    ELSE NatDigits(n \div 10) \o <<DigitChars[(n % 10) + 1]>>

\* a stripped int() literal without its optional sign
Unsigned(t) == IF t # <<>> /\ t[1] \in {"+", "-"} THEN Tail(t) ELSE t

\* int(s) succeeds: optional surrounding whitespace, optional sign, digits
PyIntOk(s) == PyIsDigit(Unsigned(PyStrip(s)))

\* int(s) as a canonical numeral: sign "-" only for a negative value, no
\* leading zeros
PyInt(s) ==
    LET Canon(neg, mag) ==
            IF mag = <<>> THEN <<"0">>
            ELSE IF neg THEN <<"-">> \o mag ELSE mag
        Parse(t) == Canon(t[1] = "-", PyLStripChars(Unsigned(t), {"0"}))
    IN  Parse(PyStrip(s))

\* str(n) of an integer held as a numeral
PyStr(n) == n

NumIsNeg(n) == n[1] = "-"

NumMag(n) == IF NumIsNeg(n) THEN Tail(n) ELSE n

\* int(s) as a TLA+ integer, for the short tokens that denote small numbers
PySmallInt(s) ==
    LET Val(n) == IF NumIsNeg(n) THEN 0 - DigitsValue(NumMag(n)) ELSE DigitsValue(n)
    IN  Val(PyInt(s))

\* a + b on digit strings, least significant digit last
RECURSIVE DigitsAdd(_, _, _)
DigitsAdd(a, b, carry) ==
    LET LastVal(d) == IF d = <<>> THEN 0 ELSE DigitVal(d[Len(d)])
        Front(d) == IF d = <<>> THEN <<>> ELSE SubSeq(d, 1, Len(d) - 1)
        Put(sum) == DigitsAdd(Front(a), Front(b), sum \div 10) \o <<DigitChars[(sum % 10) + 1]>>
    IN  IF a = <<>> /\ b = <<>> THEN (IF carry = 0 THEN <<>> ELSE <<DigitChars[carry + 1]>>)
        ELSE Put(LastVal(a) + LastVal(b) + carry)

\* ------------------------------------------------------------------------
\* Configuration (src/config.py) and the words of the modelled inputs
\* ------------------------------------------------------------------------

Admin1 == <<"8", "4", "5", "1", "3", "7", "2", "3", "0", "4">>

Admin2 == <<"8", "5", "8", "0", "9", "9", "4", "1", "2", "7">>

\* config.ADMINS
ADMINS == <<Admin1, Admin2>>

\* a user that is not in ADMINS
Stranger == <<"4", "2">>

\* is_admin(user_id)
MutIsAdminAcceptsAnyone(user_id) == user_id = user_id

is_admin(user_id) == \E i \in 1..Len(ADMINS) : ADMINS[i] = user_id

\* 1000000000000, the magnitude of the supergroup offset of _normalize_group_id
SupergroupOffset == <<"1", "0", "0", "0", "0", "0", "0", "0", "0", "0", "0", "0", "0">>

\* the largest token value _get_group_id_from_index treats as a list position
MaxGroupIndex == 999

\* ------------------------------------------------------------------------
\* Comparison of a numeral with a small non-negative TLA+ integer
\* ------------------------------------------------------------------------

NumLE(n, k) == NumIsNeg(n) \/ (Len(n) <= 9 /\ DigitsValue(n) <= k)

NumGE(n, k) == ~NumIsNeg(n) /\ (Len(n) > 9 \/ DigitsValue(n) >= k)

\* ------------------------------------------------------------------------
\* The record stores.  groups, users and messages are insertion-ordered
\* dictionaries (sequences of entries with distinct keys); topics is a
\* dictionary of dictionaries whose order no code path depends on.
\* ------------------------------------------------------------------------

VARIABLES groups, users, messages, topics, clock, last, tasks

vars == <<groups, users, messages, topics, clock, last, tasks>>

\* the keys of an insertion-ordered dictionary, in order
DictKeys(d) == [i \in 1..Len(d) |-> d[i].key]

DictHas(d, k) == \E i \in 1..Len(d) : d[i].key = k

DictPos(d, k) == CHOOSE i \in 1..Len(d) : d[i].key = k

\* d[k] = v: an existing key keeps its position, a new key is appended
DictPut(d, k, v) ==
    IF DictHas(d, k)
    THEN [d EXCEPT ![DictPos(d, k)] = [key |-> k, val |-> v]]
    ELSE Append(d, [key |-> k, val |-> v])

\* del d[k]
DictDel(d, k) ==
    LET p == DictPos(d, k)
    IN  SubSeq(d, 1, p - 1) \o SubSeq(d, p + 1, Len(d))

\* ------------------------------------------------------------------------
\* Group index and id helpers
\* ------------------------------------------------------------------------

\* _normalize_group_id(group_id_str); exc when int() raises
MutNormalizeKeepsZero(group_id_str) ==
    LET Norm(gid) ==
            IF NumLE(gid, 0) THEN [exc |-> FALSE, val |-> gid]
            ELSE [exc |-> FALSE, val |-> <<"-">> \o DigitsAdd(SupergroupOffset, gid, 0)]
    IN  IF ~PyIntOk(group_id_str) THEN [exc |-> TRUE, val |-> None]
        ELSE Norm(PyInt(group_id_str))

_normalize_group_id(group_id_str) ==
    LET Norm(gid) ==
            IF NumIsNeg(gid) THEN [exc |-> FALSE, val |-> gid]
            ELSE [exc |-> FALSE, val |-> <<"-">> \o DigitsAdd(SupergroupOffset, gid, 0)]
    IN  IF ~PyIntOk(group_id_str) THEN [exc |-> TRUE, val |-> None]
        ELSE Norm(PyInt(group_id_str))

\* _get_group_id_from_index(index_or_id) over the managed-groups store g
MutIndexOffByOne(index_or_id, g) ==
    LET At(gid_str) == [exc |-> FALSE, gid |-> PyInt(gid_str), gid_str |-> gid_str,
                        is_index |-> TRUE]
        Pick(val, group_ids) ==
            IF NumGE(val, 1) /\ NumLE(val, MaxGroupIndex) /\ NumLE(val, Len(group_ids) - 1)
            THEN At(group_ids[DigitsValue(val) + 1])
            ELSE [exc |-> FALSE, gid |-> val, gid_str |-> index_or_id, is_index |-> FALSE]
    IN  IF ~PyIntOk(index_or_id)
        THEN [exc |-> TRUE, gid |-> None, gid_str |-> index_or_id, is_index |-> FALSE]
        ELSE Pick(PyInt(index_or_id), DictKeys(g))

_get_group_id_from_index(index_or_id, g) ==
    LET At(gid_str) == [exc |-> FALSE, gid |-> PyInt(gid_str), gid_str |-> gid_str,
                        is_index |-> TRUE]
        Pick(val, group_ids) ==
            IF NumGE(val, 1) /\ NumLE(val, MaxGroupIndex) /\ NumLE(val, Len(group_ids))
            THEN At(group_ids[DigitsValue(val)])
            ELSE [exc |-> FALSE, gid |-> val, gid_str |-> index_or_id, is_index |-> FALSE]
    IN  IF ~PyIntOk(index_or_id)
        THEN [exc |-> TRUE, gid |-> None, gid_str |-> index_or_id, is_index |-> FALSE]
        ELSE Pick(PyInt(index_or_id), DictKeys(g))

\* _get_group_index(group_id_str)
_get_group_index(group_id_str, g) ==
    IF DictHas(g, group_id_str) THEN DictPos(g, group_id_str) ELSE 0 - 1

\* ------------------------------------------------------------------------
\* The topic-mapping store and topic resolution
\* ------------------------------------------------------------------------

EmptyMap == [x \in {} |-> None]

MapPut(f, k, v) == [x \in (DOMAIN f) \cup {k} |-> IF x = k THEN v ELSE f[x]]

\* Python truthiness of an Optional[int]
Truthy(v) == v # None /\ v[1] # 0

TopicPrefix == <<"t", "o", "p", "i", "c", "_">>

\* add_topic_mapping(chat_id, topic_name, topic_id) on the store t
add_topic_mapping(t, chat_id, topic_name, topic_id) ==
    LET chat_id_str == PyStr(chat_id)
        inner == IF chat_id_str \in DOMAIN t THEN t[chat_id_str] ELSE EmptyMap
    IN  MapPut(t, chat_id_str, MapPut(inner, PyLower(topic_name), topic_id))

\* get_topic_id_by_name(chat_id, topic_name) on the store t
get_topic_id_by_name(t, chat_id, topic_name) ==
    LET chat_id_str == PyStr(chat_id)
    IN  IF chat_id_str \in DOMAIN t /\ PyLower(topic_name) \in DOMAIN t[chat_id_str]
        THEN Some(t[chat_id_str][PyLower(topic_name)])
        ELSE None

\* the answer of client.get_forum_topics(chat_id): avail is FALSE when the call
\* raises, otherwise list holds the topics of the chat in the platform's order
LiveAnswer(avail, list) == [avail |-> avail, list |-> list]

\* the numeric shortcuts of _resolve_topic_id (lines 134-148): the parsed id, or
\* None when neither form applies or int() raises ValueError
MutTopicNumberNoPrefix(clean_input) ==
    IF PyIsDigit(clean_input) THEN Some(PySmallInt(clean_input)) ELSE None

TopicNumber(clean_input) ==
    LET Parsed(part) == IF PyIntOk(part) THEN Some(PySmallInt(part)) ELSE None
    IN  IF PyStartsWith(clean_input, TopicPrefix)
        THEN Parsed(PySplitOn(clean_input, "_")[2])
        ELSE IF PyIsDigit(clean_input) THEN Some(PySmallInt(clean_input))
        ELSE None

\* the loop over the live topic list (lines 161-172).  exc: get_forum_topics or
\* add_topic_mapping raised, which the inner except swallows.
LiveTopicLookup(t, chat_id, clean_input, live, saveOk) ==
    LET Key(name) == PyStrip(PyLower(name))
        Found(hit) ==
            IF ~saveOk
            THEN [exc |-> TRUE, found |-> TRUE, id |-> Some(hit.id), topics |-> t]
            ELSE [exc |-> FALSE, found |-> TRUE, id |-> Some(hit.id),
                  topics |-> add_topic_mapping(t, chat_id, Key(hit.title), hit.id)]
        Scan(hits) ==
            IF hits = {}
            THEN [exc |-> FALSE, found |-> FALSE, id |-> None, topics |-> t]
            ELSE Found(live.list[MinOf(hits)])
        Matching(want) == {i \in 1..Len(live.list) : Key(live.list[i].title) = want}
    IN  IF ~live.avail
        THEN [exc |-> TRUE, found |-> FALSE, id |-> None, topics |-> t]
        ELSE Scan(Matching(Key(clean_input)))

\* _resolve_topic_id(client, chat_id, topic_input) on the store t, with the
\* platform answering live and the store write succeeding iff saveOk.
\* result: the returned value; raised: an exception left the function;
\* usedMapping / usedLive: the mapping store / the live list was consulted.
MutResolveRaises(t, chat_id, topic_input, live, saveOk) ==
    LET base == [raised |-> FALSE, topics |-> t,
                 usedMapping |-> FALSE, usedLive |-> FALSE, persisted |-> FALSE,
                 liveHit |-> FALSE, result |-> None]
        Decide(num, manual, lv) ==
            IF num # None THEN [base EXCEPT !.result = num]
            ELSE IF Truthy(manual)
            THEN [base EXCEPT !.usedMapping = TRUE, !.result = manual]
            ELSE IF lv.exc
            THEN [base EXCEPT !.usedMapping = TRUE, !.usedLive = TRUE, !.liveHit = lv.found,
                              !.raised = TRUE]
            ELSE IF lv.found
            THEN [base EXCEPT !.usedMapping = TRUE, !.usedLive = TRUE, !.liveHit = TRUE,
                              !.result = lv.id, !.topics = lv.topics, !.persisted = TRUE]
            ELSE [base EXCEPT !.usedMapping = TRUE, !.usedLive = TRUE]
        With(clean_input) ==
            Decide(TopicNumber(clean_input), get_topic_id_by_name(t, chat_id, clean_input),
                   LiveTopicLookup(t, chat_id, clean_input, live, saveOk))
    IN  With(PyStripChars(topic_input, QuoteChars))

_resolve_topic_id(t, chat_id, topic_input, live, saveOk) ==
    LET base == [raised |-> FALSE, topics |-> t,
                 usedMapping |-> FALSE, usedLive |-> FALSE, persisted |-> FALSE,
                 liveHit |-> FALSE, result |-> None]
        Decide(num, manual, lv) ==
            IF num # None THEN [base EXCEPT !.result = num]
            ELSE IF Truthy(manual)
            THEN [base EXCEPT !.usedMapping = TRUE, !.result = manual]
            ELSE IF lv.exc
            THEN [base EXCEPT !.usedMapping = TRUE, !.usedLive = TRUE, !.liveHit = lv.found]
            ELSE IF lv.found
            THEN [base EXCEPT !.usedMapping = TRUE, !.usedLive = TRUE, !.liveHit = TRUE,
                              !.result = lv.id, !.topics = lv.topics, !.persisted = TRUE]
            ELSE [base EXCEPT !.usedMapping = TRUE, !.usedLive = TRUE]
        With(clean_input) ==
            Decide(TopicNumber(clean_input), get_topic_id_by_name(t, chat_id, clean_input),
                   LiveTopicLookup(t, chat_id, clean_input, live, saveOk))
    IN  With(PyStripChars(topic_input, QuoteChars))

\* ------------------------------------------------------------------------
\* Words of the modelled command texts
\* ------------------------------------------------------------------------

CmdSay == <<"/", "s", "a", "y">>

CmdSendPhoto == <<"/", "s", "e", "n", "d", "_", "p", "h", "o", "t", "o">>

CmdSendVideo == <<"/", "s", "e", "n", "d", "_", "v", "i", "d", "e", "o">>

CmdSendDocument == <<"/", "s", "e", "n", "d", "_", "d", "o", "c", "u", "m", "e", "n", "t">>

CmdForward == <<"/", "f", "o", "r", "w", "a", "r", "d">>

CmdAddTopic == <<"/", "a", "d", "d", "t", "o", "p", "i", "c">>

CmdAddGroup == <<"/", "a", "d", "d", "g", "r", "o", "u", "p">>

CmdRemoveGroup == <<"/", "r", "e", "m", "o", "v", "e", "g", "r", "o", "u", "p">>

CmdEditGroupName == <<"/", "e", "d", "i", "t", "g", "r", "o", "u", "p", "n", "a", "m", "e">>

CmdTopics == <<"/", "t", "o", "p", "i", "c", "s">>

CmdBroadcast == <<"/", "b", "r", "o", "a", "d", "c", "a", "s", "t">>

CmdReply == <<"/", "r", "e", "p", "l", "y">>

CmdView == <<"/", "v", "i", "e", "w">>

CmdResolve == <<"/", "r", "e", "s", "o", "l", "v", "e">>

CmdClearInbox == <<"/", "c", "l", "e", "a", "r", "i", "n", "b", "o", "x">>

CmdAdmin == <<"/", "a", "d", "m", "i", "n">>

CmdListGroups == <<"/", "l", "i", "s", "t", "g", "r", "o", "u", "p", "s">>

CmdListUsers == <<"/", "l", "i", "s", "t", "u", "s", "e", "r", "s">>

CmdInbox == <<"/", "i", "n", "b", "o", "x">>

WGeneral == <<"G", "e", "n", "e", "r", "a", "l">>

WgeneralLower == <<"g", "e", "n", "e", "r", "a", "l">>

WQGeneral == <<"\"", "G", "e", "n", "e", "r", "a", "l", "\"">>

WQPadGeneral == <<"\"", " ", "G", "e", "n", "e", "r", "a", "l", " ", "\"">>

WArt == <<"A", "r", "t">>

WHello == <<"H", "e", "l", "l", "o">>

WTopic5 == <<"t", "o", "p", "i", "c", "_", "5">>

WTopic0 == <<"t", "o", "p", "i", "c", "_", "0">>

WTopicBad == <<"t", "o", "p", "i", "c", "_", "x">>

WGroupA == <<"-", "1", "0", "0", "0", "0", "0", "0", "0", "0", "0", "0", "0", "5">>

WGroupB == <<"7">>

WName == <<"L", "a", "b">>

\* the words of ws joined by single spaces
RECURSIVE JoinSp(_)
JoinSp(ws) ==
    IF Len(ws) = 0 THEN <<>>
    ELSE IF Len(ws) = 1 THEN ws[1]
    ELSE ws[1] \o <<" ">> \o JoinSp(Tail(ws))

\* ------------------------------------------------------------------------
\* Outbound platform calls and handler outcomes
\* ------------------------------------------------------------------------

\* one platform call: the API method, the target chat, the topic/thread id
\* passed (None when none is), what the call is for, the text sent, and
\* whether the platform accepted it (FALSE: the call raised)
Call(api, to, thread, tag, body, ok) ==
    [api |-> api, to |-> to, thread |-> thread, tag |-> tag, body |-> body, ok |-> ok]

\* message.reply_text(...)
Reply(m, tag, ok) == Call("reply_text", m.chat, None, tag, None, ok)

\* the replies attempted when every reply raises: the first one and then the
\* one of each enclosing except clause
FailedReplies(m, tags) == [i \in 1..Len(tags) |-> Reply(m, tags[i], FALSE)]

\* a handler ends with a reply: tags[1] when replies get through
EndReply(o, m, tags, rok) ==
    [o EXCEPT !.calls = @ \o (IF rok THEN <<Reply(m, tags[1], TRUE)>> ELSE FailedReplies(m, tags))]

\* the outcome of a handler that has done nothing yet: its platform calls, the
\* four stores, and what it computed (topic resolution, target group, index
\* returned by add_message_record) or was answered (by get_chat_member), and
\* the service event it was given, if any
Base ==
    [calls |-> <<>>, groups |-> groups, users |-> users, messages |-> messages,
     topics |-> topics, res |-> None, tgt |-> None, idx |-> None, member |-> None,
     event |-> None]

\* record_user_interaction(user, chat) on the users store u
FirstName(user_id) ==
    IF user_id = Stranger THEN <<"B", "o", "b">> ELSE <<"A", "n", "n">>

UserName(user_id) ==
    IF user_id = Admin1 THEN <<"b", "o", "s", "s">> ELSE <<>>

record_user_interaction(u, user_id) ==
    DictPut(u, PyStr(user_id),
            [id |-> user_id, first_name |-> FirstName(user_id), username |-> UserName(user_id),
             last_seen |-> clock])

\* the answers the platform may give to get_forum_topics
TopicGeneral5 == [title |-> WGeneral, id |-> 5]

TopicGeneral7 == [title |-> <<"G", "E", "N", "E", "R", "A", "L", " ">>, id |-> 7]

LiveAnswers ==
    {LiveAnswer(FALSE, <<>>), LiveAnswer(TRUE, <<>>),
     LiveAnswer(TRUE, <<TopicGeneral5, TopicGeneral7>>), LiveAnswer(TRUE, <<TopicGeneral7>>)}

\* what a handler keeps of one _resolve_topic_id call: its arguments, the
\* mapping store before the call, the platform's answer if it was asked, and
\* the result
ResTrace(r, chat_id, token, live, before) ==
    [chat |-> chat_id, token |-> token, before |-> before,
     live |-> IF r.usedLive THEN Some(live) ELSE None,
     result |-> r.result, raised |-> r.raised, usedMapping |-> r.usedMapping,
     usedLive |-> r.usedLive, liveHit |-> r.liveHit, persisted |-> r.persisted]

\* the optional topic argument of a send command (lines 1512-1523, 1961-1967):
\* resolve it, warn the invoker when nothing was resolved.  cont: the handler
\* goes on to the delivery.
\* what the environment decides during one _resolve_topic_id call: the answer
\* of get_forum_topics, asked only when the mapping has no id for the token,
\* and whether the store write succeeds, attempted only for a matching title
ResolveEnv(t, chat_id, topic_input) ==
    LET clean_input == PyStripChars(topic_input, QuoteChars)
        unasked == LiveAnswer(FALSE, <<>>)
    IN  IF ~_resolve_topic_id(t, chat_id, topic_input, unasked, TRUE).usedLive
        THEN {<<unasked, TRUE>>}
        ELSE {e \in LiveAnswers \X BOOLEAN :
                e[2] \/ LiveTopicLookup(t, chat_id, clean_input, e[1], TRUE).found}

MutTopicStepStopsAfterWarning(o, m, chat_id, topic_id_str, rok) ==
    LET Resolved(r, live) ==
            [o EXCEPT !.topics = r.topics,
                      !.res = Some(ResTrace(r, chat_id, topic_id_str, live, o.topics))]
        Outcome(o1, r) ==
            IF Truthy(r.result)
            THEN [o |-> o1, topic |-> r.result, cont |-> TRUE]
            ELSE [o |-> EndReply(o1, m, <<"warn_topic", "error">>, rok), topic |-> r.result,
                  cont |-> FALSE]
        Try(r, live) == Outcome(Resolved(r, live), r)
    IN  IF topic_id_str = None THEN {[o |-> o, topic |-> None, cont |-> TRUE]}
        ELSE { Try(_resolve_topic_id(o.topics, chat_id, topic_id_str, e[1], e[2]), e[1])
               : e \in ResolveEnv(o.topics, chat_id, topic_id_str) }

TopicStep(o, m, chat_id, topic_id_str, rok) ==
    LET Resolved(r, live) ==
            [o EXCEPT !.topics = r.topics,
                      !.res = Some(ResTrace(r, chat_id, topic_id_str, live, o.topics))]
        Outcome(o1, r) ==
            IF r.raised
            THEN [o |-> EndReply(o1, m, <<"error">>, rok), topic |-> None, cont |-> FALSE]
            ELSE IF Truthy(r.result)
            THEN [o |-> o1, topic |-> r.result, cont |-> TRUE]
            ELSE IF rok
            THEN [o |-> EndReply(o1, m, <<"warn_topic">>, TRUE), topic |-> r.result, cont |-> TRUE]
            ELSE [o |-> EndReply(o1, m, <<"warn_topic", "error">>, FALSE), topic |-> r.result,
                  cont |-> FALSE]
        Try(r, live) == Outcome(Resolved(r, live), r)
    IN  IF topic_id_str = None THEN {[o |-> o, topic |-> None, cont |-> TRUE]}
        ELSE { Try(_resolve_topic_id(o.topics, chat_id, topic_id_str, e[1], e[2]), e[1])
               : e \in ResolveEnv(o.topics, chat_id, topic_id_str) }

\* ------------------------------------------------------------------------
\* Media delivery helpers
\* ------------------------------------------------------------------------

\* what a delivery helper did: its platform calls, whether it raised, the
\* temporary file download_media produced (None when it produced none),
\* whether os.remove raised, and whether the file still exists at the end
Attempt(calls, raised) ==
    [calls |-> calls, raised |-> raised, temp_file |-> None, remove_raised |-> FALSE,
     exists |-> FALSE]

\* the path download_media returns
TempPath == <<"d", "l">>

\* _attempt_copy_with_thread: copy_message with message_thread_id, then with
\* reply_to_message_id; raises when both fail
_attempt_copy_with_thread(target_chat, thread_id) ==
    LET c1(ok) == Call("copy_message", target_chat, thread_id, "message_thread_id", None, ok)
        c2(ok) == Call("copy_message", target_chat, thread_id, "reply_to_message_id", None, ok)
    IN  {Attempt(<<c1(TRUE)>>, FALSE),
         Attempt(<<c1(FALSE), c2(TRUE)>>, FALSE),
         Attempt(<<c1(FALSE), c2(FALSE)>>, TRUE)}

SendApi(kind) ==
    CASE kind = "photo" -> "send_photo"
      [] kind = "video" -> "send_video"
      [] kind = "audio" -> "send_audio"
      [] kind = "animation" -> "send_animation"
      [] OTHER -> "send_document"

\* _download_and_upload_to_topic: download the media to a temporary file,
\* upload it with message_thread_id=topic_id, and remove the file in the
\* finally clause, where a failing os.remove is swallowed; raises when the
\* download or the upload fails
MutDownloadCleansUpOnSuccessOnly(kind, target_chat, topic_id) ==
    LET dl(ok) == Call("download_media", None, None, kind, None, ok)
        up(ok) == Call(SendApi(kind), target_chat, topic_id, "upload", None, ok)
        Uploaded(ok, removeOk) ==
            [calls |-> <<dl(TRUE), up(ok)>>, raised |-> ~ok, temp_file |-> Some(TempPath),
             remove_raised |-> ok /\ ~removeOk, exists |-> ~ok \/ ~removeOk]
    IN  {Attempt(<<dl(FALSE)>>, TRUE)}
        \cup {Uploaded(ok, removeOk) : ok \in BOOLEAN, removeOk \in BOOLEAN}

_download_and_upload_to_topic(kind, target_chat, topic_id) ==
    LET dl(ok) == Call("download_media", None, None, kind, None, ok)
        up(ok) == Call(SendApi(kind), target_chat, topic_id, "upload", None, ok)
        Uploaded(ok, removeOk) ==
            [calls |-> <<dl(TRUE), up(ok)>>, raised |-> ~ok, temp_file |-> Some(TempPath),
             remove_raised |-> ~removeOk, exists |-> ~removeOk]
    IN  {Attempt(<<dl(FALSE)>>, TRUE)}
        \cup {Uploaded(ok, removeOk) : ok \in BOOLEAN, removeOk \in BOOLEAN}

\* s, followed by every way t can go on when s raised
OnRaise(s, t) ==
    {x \in s : ~x.raised}
    \cup {[y EXCEPT !.calls = x.calls \o @] : x \in {z \in s : z.raised}, y \in t}

\* _copy_media_to_target(client, source_msg, target_chat, topic_id) for a source
\* message of the given kind.  Without a topic, copy_message may raise a
\* TypeError ("type_error"), which is answered by forward_messages, or another
\* exception ("error"), which is answered by download and upload.
MutCopyGivesUpWithTopic(kind, target_chat, topic_id) ==
    LET plain(ok, why) == Call("copy_message", target_chat, None, why, None, ok)
        fwd(ok) == Call("forward_messages", target_chat, None, "fallback", None, ok)
    IN  IF Truthy(topic_id)
        THEN _attempt_copy_with_thread(target_chat, topic_id)
        ELSE {Attempt(<<plain(TRUE, "plain")>>, FALSE),
              Attempt(<<plain(FALSE, "type_error"), fwd(TRUE)>>, FALSE),
              Attempt(<<plain(FALSE, "type_error"), fwd(FALSE)>>, TRUE)}
             \cup OnRaise({Attempt(<<plain(FALSE, "error")>>, TRUE)},
                          _download_and_upload_to_topic(kind, target_chat, None))

_copy_media_to_target(kind, target_chat, topic_id) ==
    LET plain(ok, why) == Call("copy_message", target_chat, None, why, None, ok)
        fwd(ok) == Call("forward_messages", target_chat, None, "fallback", None, ok)
    IN  IF Truthy(topic_id)
        THEN OnRaise(_attempt_copy_with_thread(target_chat, topic_id),
                     _download_and_upload_to_topic(kind, target_chat, topic_id))
        ELSE {Attempt(<<plain(TRUE, "plain")>>, FALSE),
              Attempt(<<plain(FALSE, "type_error"), fwd(TRUE)>>, FALSE),
              Attempt(<<plain(FALSE, "type_error"), fwd(FALSE)>>, TRUE)}
             \cup OnRaise({Attempt(<<plain(FALSE, "error")>>, TRUE)},
                          _download_and_upload_to_topic(kind, target_chat, None))

\* ------------------------------------------------------------------------
\* Target group of a command
\* ------------------------------------------------------------------------

\* group_id, group_id_str, is_index = _get_group_id_from_index(target_str)
\* normalized_gid = _normalize_group_id(group_id_str)
TargetOf(target_str, g) ==
    LET t == _get_group_id_from_index(target_str, g)
    IN  [token |-> target_str, exc |-> t.exc, gid |-> t.gid, gid_str |-> t.gid_str,
         is_index |-> t.is_index,
         norm |-> IF t.exc THEN None ELSE _normalize_group_id(t.gid_str).val]

\* not (group_id_str not in groups and str(normalized_gid) not in groups)
MutIsManagedSkipsCheck(tg, g) == DictHas(g, tg.gid_str) \/ tg.norm = tg.norm

IsManaged(tg, g) == DictHas(g, tg.gid_str) \/ DictHas(g, PyStr(tg.norm))

\* ------------------------------------------------------------------------
\* Private send commands
\* ------------------------------------------------------------------------

\* the delivery part of handle_send_photo / _video / _document (cases 1-3)
SendMediaDeliver(kind, m, rok, o, tg, topic_id) ==
    LET args2 == PySplit(m.text, 2)
        path_arg == args2[3]
        done(c, okTag) ==
            EndReply([o EXCEPT !.calls = @ \o c.calls], m,
                     IF c.raised THEN <<"failed", "error">> ELSE <<okTag, "failed", "error">>, rok)
        one(call(_)) == {Attempt(<<call(TRUE)>>, FALSE), Attempt(<<call(FALSE)>>, TRUE)}
        plainCopy(ok) == Call("copy_message", tg.norm, None, "plain", None, ok)
        byPath(ok) == Call(SendApi(kind), tg.norm, topic_id, "path", path_arg, ok)
    IN  IF m.reply = kind
        THEN {done(c, "sent") : c \in _copy_media_to_target(kind, tg.norm, topic_id)}
        ELSE IF m.media = kind
        THEN {done(c, "sent") :
                c \in IF Truthy(topic_id) THEN _attempt_copy_with_thread(tg.norm, topic_id)
                      ELSE one(plainCopy)}
        ELSE IF Len(args2) >= 3
        THEN IF ~(PyStartsWith(path_arg, TopicPrefix) \/ (PyIsDigit(path_arg) /\ Len(path_arg) < 4))
             THEN {done(c, "sent") : c \in one(byPath)}
             ELSE {EndReply(o, m, <<"need_media", "error">>, rok)}
        ELSE {EndReply(o, m, <<"need_media", "error">>, rok)}

\* handle_send_photo, handle_send_video, handle_send_document (private chat)
SendMedia(kind, m, rok) ==
    LET args == PySplit(m.text, 2)
        target_str == args[2]
        topic_id_str == IF Len(args) >= 3 THEN args[3] ELSE None
        tg == TargetOf(target_str, groups)
        o1 == [Base EXCEPT !.tgt = Some(tg)]
    IN  IF ~is_admin(m.from) THEN {EndReply(Base, m, <<"denied", "error">>, rok)}
        ELSE IF Len(args) < 2 THEN {EndReply(Base, m, <<"usage", "error">>, rok)}
        ELSE IF tg.exc THEN {EndReply(o1, m, <<"error">>, rok)}
        ELSE IF ~IsManaged(tg, groups) THEN {EndReply(o1, m, <<"not_found", "error">>, rok)}
        ELSE UNION { IF ts.cont THEN SendMediaDeliver(kind, m, rok, ts.o, tg, ts.topic)
                     ELSE {ts.o}
                     : ts \in TopicStep(o1, m, tg.norm, topic_id_str, rok) }

\* handle_say
Say(m, rok) ==
    LET args == PySplit(m.text, 3)
        target_str == args[2]
        potential_topic == args[3]
        text == IF Len(args) >= 4 THEN args[4] ELSE args[3]
        byName == Len(args) >= 4 /\ ~PyStartsWith(potential_topic, TopicPrefix)
                  /\ (~PyIsDigit(potential_topic) \/ Len(potential_topic) > 3)
        tg == TargetOf(target_str, groups)
        o1 == [Base EXCEPT !.tgt = Some(tg)]
        send(o, topic_id) ==
            IF tg.exc THEN {EndReply(o, m, <<"failed", "error">>, rok)}
            ELSE {EndReply([o EXCEPT !.calls = @ \o <<Call("send_message", tg.norm, topic_id,
                                                           "say", text, TRUE)>>],
                           m, <<"sent", "failed", "error">>, rok),
                  EndReply([o EXCEPT !.calls = @ \o <<Call("send_message", tg.norm, topic_id,
                                                           "say", text, FALSE)>>],
                           m, <<"failed", "error">>, rok)}
    IN  IF ~is_admin(m.from) THEN {EndReply(Base, m, <<"denied", "error">>, rok)}
        ELSE IF Len(args) < 3 THEN {EndReply(Base, m, <<"usage", "error">>, rok)}
        ELSE IF ~byName THEN send(o1, None)
        ELSE IF tg.exc THEN {EndReply(o1, m, <<"error">>, rok)}
        ELSE UNION { IF ts.cont THEN send(ts.o, ts.topic) ELSE {ts.o}
                     : ts \in TopicStep(o1, m, tg.norm, potential_topic, rok) }

\* ------------------------------------------------------------------------
\* /forward
\* ------------------------------------------------------------------------

\* the common part of handle_forward_group and handle_forward_private, once the
\* invoker is authorised
ForwardBody(m, rok) ==
    LET args == PySplit(m.text, 2)
        target_str == args[2]
        topic_id_str == IF Len(args) >= 3 THEN args[3] ELSE None
        tg == TargetOf(target_str, groups)
        o1 == [Base EXCEPT !.tgt = Some(tg)]
        fwd(ok) == Call("forward_messages", tg.norm, None, "forward", None, ok)
        first(topic_id) ==
            IF Truthy(topic_id) THEN _attempt_copy_with_thread(tg.norm, topic_id)
            ELSE {Attempt(<<fwd(TRUE)>>, FALSE), Attempt(<<fwd(FALSE)>>, TRUE)}
        \* the except clause: copy fallback, then its own replies
        fallback(o, topic_id) ==
            { EndReply([o EXCEPT !.calls = @ \o c.calls], m,
                       IF c.raised THEN <<"failed", "error">> ELSE <<"copied", "failed", "error">>, rok)
              : c \in _copy_media_to_target(m.reply, tg.norm, topic_id) }
        deliver(o, topic_id) ==
            UNION { LET o2 == [o EXCEPT !.calls = @ \o c.calls]
                    IN  IF c.raised THEN fallback(o2, topic_id)
                        ELSE IF rok
                        THEN {[EndReply(o2, m, <<"forwarded">>, TRUE)
                                 EXCEPT !.users = record_user_interaction(@, m.from)]}
                        ELSE fallback([o2 EXCEPT !.calls = @ \o <<Reply(m, "forwarded", FALSE)>>],
                                      topic_id)
                    : c \in first(topic_id) }
    IN  IF m.reply = "none" THEN {EndReply(Base, m, <<"need_reply", "error">>, rok)}
        ELSE IF Len(args) < 2 THEN {EndReply(Base, m, <<"usage", "error">>, rok)}
        ELSE IF tg.exc THEN {EndReply(o1, m, <<"error">>, rok)}
        ELSE IF ~IsManaged(tg, groups) THEN {EndReply(o1, m, <<"not_found", "error">>, rok)}
        ELSE UNION { IF ts.cont THEN deliver(ts.o, ts.topic) ELSE {ts.o}
                     : ts \in TopicStep(o1, m, tg.norm, topic_id_str, rok) }

\* handle_forward_private
ForwardPrivate(m, rok) ==
    IF ~is_admin(m.from) THEN {EndReply(Base, m, <<"denied", "error">>, rok)}
    ELSE ForwardBody(m, rok)

\* handle_forward_group; chatAdmin: the answer of _is_chat_admin
ForwardGroup(m, rok, chatAdmin) ==
    IF ~chatAdmin THEN {EndReply(Base, m, <<"denied", "error">>, rok)}
    ELSE ForwardBody(m, rok)

\* ------------------------------------------------------------------------
\* Group management and topic mapping commands
\* ------------------------------------------------------------------------

\* the refresh of the command menus after the managed groups changed
\* (set_bot_commands_for_scopes; its failures are swallowed)
SetCommands == Call("set_bot_commands", None, None, "scopes", None, TRUE)

\* add_managed_group(group_id, group_name) on the store g
add_managed_group(g, group_id, group_name) ==
    DictPut(g, PyStr(group_id), [name |-> group_name])

\* remove_managed_group(group_id) on the store g
remove_managed_group(g, group_id) ==
    IF DictHas(g, PyStr(group_id)) THEN DictDel(g, PyStr(group_id)) ELSE g

\* f"Group {group_id}"
DefaultGroupName(group_id) == <<"G", "r", "o", "u", "p", " ">> \o PyStr(group_id)

\* handle_addgroup
AddGroup(m, rok) ==
    LET args == PySplit(m.text, 2)
        group_id == PyInt(args[2])
        group_name == IF Len(args) > 2 THEN args[3] ELSE DefaultGroupName(group_id)
    IN  IF ~is_admin(m.from) THEN {EndReply(Base, m, <<"denied", "error">>, rok)}
        ELSE IF Len(args) < 2 THEN {EndReply(Base, m, <<"usage", "error">>, rok)}
        ELSE IF ~PyIntOk(args[2]) THEN {EndReply(Base, m, <<"invalid", "error">>, rok)}
        ELSE {EndReply([Base EXCEPT !.groups = add_managed_group(@, group_id, group_name),
                                    !.calls = <<SetCommands>>],
                       m, <<"added", "error">>, rok)}

\* handle_removegroup
MutRemoveGroupForgetsChat(m, rok) ==
    LET args == PySplit(m.text, 1)
        group_id == PyInt(args[2])
    IN  IF ~is_admin(m.from) THEN {EndReply(Base, m, <<"denied", "error">>, rok)}
        ELSE IF Len(args) < 2 THEN {EndReply(Base, m, <<"usage", "error">>, rok)}
        ELSE IF ~PyIntOk(args[2]) THEN {EndReply(Base, m, <<"invalid", "error">>, rok)}
        ELSE IF ~DictHas(groups, PyStr(group_id))
        THEN {EndReply(Base, m, <<"not_found", "error">>, rok)}
        ELSE {EndReply([Base EXCEPT !.groups = remove_managed_group(@, group_id),
                                    !.topics = [c \in DOMAIN @ \ {PyStr(group_id)} |-> @[c]],
                                    !.calls = <<SetCommands>>],
                       m, <<"removed", "error">>, rok)}

RemoveGroup(m, rok) ==
    LET args == PySplit(m.text, 1)
        group_id == PyInt(args[2])
    IN  IF ~is_admin(m.from) THEN {EndReply(Base, m, <<"denied", "error">>, rok)}
        ELSE IF Len(args) < 2 THEN {EndReply(Base, m, <<"usage", "error">>, rok)}
        ELSE IF ~PyIntOk(args[2]) THEN {EndReply(Base, m, <<"invalid", "error">>, rok)}
        ELSE IF ~DictHas(groups, PyStr(group_id))
        THEN {EndReply(Base, m, <<"not_found", "error">>, rok)}
        ELSE {EndReply([Base EXCEPT !.groups = remove_managed_group(@, group_id),
                                    !.calls = <<SetCommands>>],
                       m, <<"removed", "error">>, rok)}

\* handle_editgroupname
EditGroupName(m, rok) ==
    LET args == PySplit(m.text, 2)
        group_index == PyInt(args[2])
        new_name == PyStripChars(args[3], QuoteChars)
        pos == DigitsValue(group_index)
        g2 == [groups EXCEPT ![pos] = [key |-> groups[pos].key, val |-> [name |-> new_name]]]
    IN  IF ~is_admin(m.from) THEN {EndReply(Base, m, <<"denied", "error">>, rok)}
        ELSE IF Len(args) < 3 THEN {EndReply(Base, m, <<"usage", "error">>, rok)}
        ELSE IF ~PyIntOk(args[2]) THEN {EndReply(Base, m, <<"invalid", "error">>, rok)}
        ELSE IF Len(groups) = 0 THEN {EndReply(Base, m, <<"no_groups", "error">>, rok)}
        ELSE IF ~NumGE(group_index, 1) \/ ~NumLE(group_index, Len(groups))
        THEN {EndReply(Base, m, <<"invalid_index", "error">>, rok)}
        ELSE IF rok
        THEN {[EndReply([Base EXCEPT !.groups = g2], m, <<"renamed">>, TRUE)
                 EXCEPT !.users = record_user_interaction(@, m.from)]}
        ELSE {EndReply([Base EXCEPT !.groups = g2], m, <<"renamed", "error">>, FALSE)}

\* handle_addtopic (group chat); chatAdmin: the answer of _is_chat_admin
AddTopic(m, rok, chatAdmin) ==
    LET args == PySplit(m.text, 2)
        topic_name == PyStripChars(args[2], QuoteChars)
    IN  IF ~chatAdmin THEN {EndReply(Base, m, <<"denied", "error">>, rok)}
        ELSE IF Len(args) < 3 THEN {EndReply(Base, m, <<"usage", "error">>, rok)}
        ELSE IF ~PyIntOk(args[3]) THEN {EndReply(Base, m, <<"invalid", "error">>, rok)}
        ELSE {EndReply([Base EXCEPT !.topics = add_topic_mapping(@, m.chat, topic_name,
                                                                 PySmallInt(args[3]))],
                       m, <<"added", "error">>, rok)}

\* ------------------------------------------------------------------------
\* The inbox: the messages store, capture, /inbox, /view, /resolve, /clearinbox
\* ------------------------------------------------------------------------

\* the record add_message_record builds for message m
MessageRecord(idx, m) ==
    [id |-> idx, chat_id |-> m.chat, from_id |-> m.from, text |-> m.text, date |-> clock,
     handled |-> FALSE, handled_by |-> None, handled_at |-> None]

\* the fallback index: int(time.time()), incremented while it is a key
RECURSIVE FreeIndexFrom(_, _)
FreeIndexFrom(msgs, idx) ==
    IF DictHas(msgs, NatDigits(idx)) THEN FreeIndexFrom(msgs, idx + 1) ELSE idx

\* load_messages() on the store msgs: an unreadable file is read as the empty
\* dictionary (lines 283-290)
load_messages(msgs, ok) == IF ok THEN msgs ELSE <<>>

\* add_message_record(msg) on the store msgs.  load1, save1: the read and the
\* write of the first attempt succeed; load2, save2: those of the fallback (a
\* refused write leaves the file as it was).  idx is the value returned.
add_message_record(msgs, m, load1, save1, load2, save2) ==
    LET NumericKeys(d) ==
            {DigitsValue(d[i].key) : i \in {j \in 1..Len(d) : PyIsDigit(d[j].key)}}
        Stored(d, idx) ==
            [messages |-> DictPut(d, NatDigits(idx), MessageRecord(idx, m)), idx |-> idx]
        First(d) == Stored(d, MaxOf(NumericKeys(d) \cup {0}) + 1)
        Fallback(d) == Stored(d, FreeIndexFrom(d, clock))
    IN  IF save1 THEN First(load_messages(msgs, load1))
        ELSE IF save2 THEN Fallback(load_messages(msgs, load2))
        ELSE [messages |-> msgs, idx |-> 0 - 1]

\* mark_message_handled(idx, admin_id) on the store msgs; ok is the value
\* returned
mark_message_handled(msgs, idx, admin_id, save) ==
    LET key == NatDigits(idx)
        p == DictPos(msgs, key)
        rec == [msgs[p].val EXCEPT !.handled = TRUE, !.handled_by = Some(admin_id),
                                   !.handled_at = Some(clock)]
    IN  IF DictHas(msgs, key) /\ save
        THEN [messages |-> [msgs EXCEPT ![p] = [key |-> key, val |-> rec]], ok |-> TRUE]
        ELSE [messages |-> msgs, ok |-> FALSE]

\* the account of another bot
BotAccount == <<"9", "9">>

is_bot(user_id) == user_id = BotAccount

\* every way the notifications to the admins can go: one send_message per
\* admin, each accepted or not
Notifications(tag, body) ==
    {[i \in 1..Len(ADMINS) |-> Call("send_message", ADMINS[i], None, tag, body, oks[i])] :
        oks \in [1..Len(ADMINS) -> BOOLEAN]}

\* what the file system may do during one add_message_record call: the first
\* read fails, the first write is refused, and then the fallback's read or
\* write may fail too
StorageOutcomes ==
    {<<TRUE, TRUE, TRUE, TRUE>>, <<FALSE, TRUE, TRUE, TRUE>>, <<TRUE, FALSE, TRUE, TRUE>>,
     <<TRUE, FALSE, FALSE, TRUE>>, <<TRUE, FALSE, TRUE, FALSE>>}

\* the part capture_private_messages and capture_group_mentions share: record
\* the sender, store the message, notify the admins
CaptureBody(m) ==
    LET Stored(r, n) ==
            [Base EXCEPT !.users = record_user_interaction(@, m.from),
                         !.messages = r.messages, !.calls = n, !.idx = Some(r.idx)]
    IN  { Stored(add_message_record(messages, m, e[1], e[2], e[3], e[4]), n)
          : e \in StorageOutcomes, n \in Notifications("notify", m.text) }

\* capture_private_messages
CapturePrivate(m) ==
    IF m.text # <<>> /\ PyStartsWith(m.text, <<"/">>) THEN {Base}
    ELSE IF is_bot(m.from) THEN {Base}
    ELSE IF is_admin(m.from) THEN {Base}
    ELSE CaptureBody(m)

BOT_USERNAME == <<"@", "S", "i", "g", "m", "a", "C", "h", "a", "n", "B", "o", "t">>

\* sub in s: s contains sub
PyContains(s, sub) ==
    \E i \in 1..(Len(s) - Len(sub) + 1) : SubSeq(s, i, i + Len(sub) - 1) = sub

\* capture_group_mentions; m.reply = "self": the message replies to one of the
\* bot's own messages
CaptureGroupMentions(m) ==
    IF is_bot(m.from) THEN {Base}
    ELSE IF m.text # <<>> /\ PyStartsWith(m.text, <<"/">>) THEN {Base}
    ELSE IF ~(PyContains(PyLower(m.text), PyLower(BOT_USERNAME)) \/ m.reply = "self") THEN {Base}
    ELSE CaptureBody(m)

\* the m<id> / <id> argument of /view and /resolve
MessageKey(arg) ==
    LET key == PyLStripChars(arg, Whitespace)
    IN  IF PyStartsWith(PyLower(key), <<"m">>) THEN Tail(key) ELSE key

\* handle_inbox
Inbox(m, rok) ==
    IF ~is_admin(m.from) THEN {EndReply(Base, m, <<"denied", "error">>, rok)}
    ELSE IF Len(messages) = 0 THEN {EndReply(Base, m, <<"no_messages", "error">>, rok)}
    ELSE IF \A i \in 1..Len(messages) : messages[i].val.handled
    THEN {EndReply(Base, m, <<"no_pending", "error">>, rok)}
    ELSE {EndReply(Base, m, <<"pending", "error">>, rok)}

\* handle_view_message; original: the record names the original message;
\* copyOk: copy_message is accepted
ViewMessage(m, rok, original, copyOk) ==
    LET args == PySplit(m.text, 1)
        key_id == MessageKey(args[2])
        copy == Call("copy_message", m.chat, None, "view", None, copyOk)
    IN  IF ~is_admin(m.from) THEN {EndReply(Base, m, <<"denied", "error">>, rok)}
        ELSE IF Len(args) < 2 THEN {EndReply(Base, m, <<"usage", "error">>, rok)}
        ELSE IF ~PyIsDigit(key_id) THEN {EndReply(Base, m, <<"usage", "error">>, rok)}
        ELSE IF ~DictHas(messages, PyInt(key_id))
        THEN {EndReply(Base, m, <<"not_found", "error">>, rok)}
        ELSE IF ~original THEN {EndReply(Base, m, <<"preview", "error">>, rok)}
        ELSE IF copyOk THEN {[Base EXCEPT !.calls = <<copy>>]}
        ELSE {EndReply([Base EXCEPT !.calls = <<copy>>], m, <<"preview", "error">>, rok)}

\* handle_resolve_message
ResolveMessage(m, rok, save) ==
    LET args == PySplit(m.text, 1)
        key_id == MessageKey(args[2])
        midx == DigitsValue(PyInt(key_id))
        r == mark_message_handled(messages, midx, m.from, save)
    IN  IF ~is_admin(m.from) THEN {EndReply(Base, m, <<"denied", "error">>, rok)}
        ELSE IF Len(args) < 2 THEN {EndReply(Base, m, <<"usage", "error">>, rok)}
        ELSE IF ~PyIsDigit(key_id) THEN {EndReply(Base, m, <<"usage", "error">>, rok)}
        ELSE IF midx <= 0 THEN {EndReply(Base, m, <<"invalid", "error">>, rok)}
        ELSE IF r.ok THEN {EndReply([Base EXCEPT !.messages = r.messages], m, <<"marked", "error">>, rok)}
        ELSE {EndReply(Base, m, <<"not_marked", "error">>, rok)}

\* handle_clearinbox
ClearInbox(m, rok, save) ==
    LET args == PySplitAll(m.text)
        n == PyInt(args[2])
        all == Len(args) <= 1 \/ NumLE(n, 0)
        unhandled == {i \in 1..Len(messages) : ~messages[i].val.handled}
        \* unhandled[:count]: the first count pending records in store order
        to_clear == IF all THEN unhandled
                    ELSE {i \in unhandled : NumGE(n, Cardinality({j \in unhandled : j <= i}))}
        cleared == [i \in 1..Len(messages) |->
                      IF i \in to_clear
                      THEN [messages[i] EXCEPT !.val.handled = TRUE]
                      ELSE messages[i]]
    IN  IF ~is_admin(m.from) THEN {EndReply(Base, m, <<"denied", "error">>, rok)}
        ELSE IF Len(args) > 1 /\ ~PyIntOk(args[2]) THEN {EndReply(Base, m, <<"invalid", "error">>, rok)}
        ELSE IF Len(messages) = 0 THEN {EndReply(Base, m, <<"no_messages", "error">>, rok)}
        ELSE IF unhandled = {} THEN {EndReply(Base, m, <<"no_pending", "error">>, rok)}
        ELSE IF ~save THEN {EndReply(Base, m, <<"error">>, rok)}
        ELSE {EndReply([Base EXCEPT !.messages = cleared], m, <<"cleared", "error">>, rok)}

\* ------------------------------------------------------------------------
\* The other private admin commands
\* ------------------------------------------------------------------------

\* a final reply followed by record_user_interaction(message.from_user, ...),
\* which is reached only when the reply did not raise
ReplyThenRecord(o, m, tags, rok) ==
    IF rok THEN [EndReply(o, m, tags, TRUE) EXCEPT !.users = record_user_interaction(@, m.from)]
    ELSE EndReply(o, m, tags, FALSE)

\* handle_admin (its except clause only logs)
AdminPanel(m, rok) ==
    IF ~is_admin(m.from) THEN {EndReply(Base, m, <<"denied">>, rok)}
    ELSE {EndReply(Base, m, <<"panel">>, rok)}

\* handle_listgroups
ListGroups(m, rok) ==
    IF ~is_admin(m.from) THEN {EndReply(Base, m, <<"denied", "error">>, rok)}
    ELSE IF Len(groups) = 0 THEN {EndReply(Base, m, <<"no_groups", "error">>, rok)}
    ELSE {ReplyThenRecord(Base, m, <<"group_list", "error">>, rok)}

\* handle_listusers
ListUsers(m, rok) ==
    IF ~is_admin(m.from) THEN {EndReply(Base, m, <<"denied", "error">>, rok)}
    ELSE IF Len(users) = 0 THEN {EndReply(Base, m, <<"no_users", "error">>, rok)}
    ELSE {ReplyThenRecord(Base, m, <<"user_list", "error">>, rok)}

\* handle_topics_private: the answer of get_forum_topics decides the text
TopicsPrivate(m, rok) ==
    LET args == PySplit(m.text, 1)
        tg == TargetOf(args[2], groups)
        o1 == [Base EXCEPT !.tgt = Some(tg)]
        tag(live) == IF ~live.avail THEN "topics_manual"
                     ELSE IF Len(live.list) = 0 THEN "topics_none"
                     ELSE "topics_list"
    IN  IF ~is_admin(m.from) THEN {EndReply(Base, m, <<"denied", "error">>, rok)}
        ELSE IF Len(args) < 2 THEN {EndReply(Base, m, <<"usage", "error">>, rok)}
        ELSE IF tg.exc THEN {EndReply(o1, m, <<"error">>, rok)}
        ELSE IF ~IsManaged(tg, groups) THEN {EndReply(o1, m, <<"not_found", "error">>, rok)}
        ELSE {EndReply(o1, m, <<tag(live), "topics_error", "error">>, rok) : live \in LiveAnswers}

\* handle_broadcast: one send_message per managed group, each accepted or not;
\* res is what the final reply reports: the sent count and the failed groups
MutBroadcastStopsAtFirstFailure(m, rok) ==
    LET args == PySplit(m.text, 1)
        text == args[2]
        reach(oks) == MinOf({i \in 1..Len(groups) : ~oks[i]} \cup {Len(groups)})
        sends(oks) == [i \in 1..reach(oks) |->
                         Call("send_message", _normalize_group_id(groups[i].key).val, None,
                              "broadcast", text, oks[i])]
        failed(oks) == {i \in 1..reach(oks) : ~oks[i]}
        report(oks) == [sent |-> reach(oks) - Cardinality(failed(oks)),
                        failed |-> Cardinality(failed(oks))]
        tag(oks) == IF failed(oks) # {} THEN "broadcast_partial" ELSE "broadcast_done"
    IN  IF ~is_admin(m.from) THEN {EndReply(Base, m, <<"denied", "error">>, rok)}
        ELSE IF Len(args) < 2 THEN {EndReply(Base, m, <<"usage", "error">>, rok)}
        ELSE IF Len(groups) = 0 THEN {EndReply(Base, m, <<"no_groups", "error">>, rok)}
        ELSE {ReplyThenRecord([Base EXCEPT !.calls = sends(oks), !.res = Some(report(oks))],
                              m, <<tag(oks), "error">>, rok) :
                oks \in [1..Len(groups) -> BOOLEAN]}

Broadcast(m, rok) ==
    LET args == PySplit(m.text, 1)
        text == args[2]
        sends(oks) == [i \in 1..Len(groups) |->
                         Call("send_message", _normalize_group_id(groups[i].key).val, None,
                              "broadcast", text, oks[i])]
        failed(oks) == {i \in 1..Len(groups) : ~oks[i]}
        report(oks) == [sent |-> Len(groups) - Cardinality(failed(oks)),
                        failed |-> Cardinality(failed(oks))]
        tag(oks) == IF failed(oks) # {} THEN "broadcast_partial" ELSE "broadcast_done"
    IN  IF ~is_admin(m.from) THEN {EndReply(Base, m, <<"denied", "error">>, rok)}
        ELSE IF Len(args) < 2 THEN {EndReply(Base, m, <<"usage", "error">>, rok)}
        ELSE IF Len(groups) = 0 THEN {EndReply(Base, m, <<"no_groups", "error">>, rok)}
        ELSE {ReplyThenRecord([Base EXCEPT !.calls = sends(oks), !.res = Some(report(oks))],
                              m, <<tag(oks), "error">>, rok) :
                oks \in [1..Len(groups) -> BOOLEAN]}

\* sorted(users.values(), key=last_seen, reverse=True): a stable sort, so users
\* seen at the same time keep their store order
RECURSIVE SortedUsers(_)
SortedUsers(u) ==
    IF Len(u) = 0 THEN <<>>
    ELSE LET top == {i \in 1..Len(u) : \A j \in 1..Len(u) : u[j].val.last_seen <= u[i].val.last_seen}
             p == CHOOSE i \in top : \A j \in top : i <= j
         IN  <<u[p].val>> \o SortedUsers(SubSeq(u, 1, p - 1) \o SubSeq(u, p + 1, Len(u)))

\* the id of the first user of the store, in store order, among the positions
\* hits (the users a loop over users.values() matches)
FirstUser(u, hits) == IF hits = {} THEN None ELSE Some(u[MinOf(hits)].val.id)

\* the target resolution of /reply (lines 2148-2190) over the stores; user is
\* the resolved user id or None, messages the store after mark_message_handled
MutReplyTargetIndexFirst(target, sender, save) ==
    LET byMessage == PyStartsWith(PyLower(target), <<"m">>) /\ PyIsDigit(Tail(target))
        key == PyInt(Tail(target))
        hasRecord == byMessage /\ DictHas(messages, key)
        step1 == IF hasRecord THEN Some(messages[DictPos(messages, key)].val.from_id) ELSE None
        msgs1 == IF hasRecord
                 THEN mark_message_handled(messages, DigitsValue(key), sender, save).messages
                 ELSE messages
        uid == PyInt(target)
        step2 == IF step1 # None \/ ~PyIsDigit(target) THEN step1
                 ELSE IF NumGE(uid, 1) /\ NumLE(uid, Len(users))
                 THEN Some(SortedUsers(users)[DigitsValue(uid)].id)
                 ELSE IF DictHas(users, PyStr(uid)) THEN Some(uid)
                 ELSE None
        target_name == PyLower(PyLStripChars(target, {"@"}))
        byUsername(r) == r.username # <<>> /\ PyLower(r.username) = target_name
        byFirstName(r) == r.first_name # <<>> /\ PyLower(r.first_name) = target_name
        named == FirstUser(users, {i \in 1..Len(users) : byUsername(users[i].val)})
        step3 == IF step2 # None \/ ~(PyStartsWith(target, <<"@">>) \/ ~PyIsDigit(target)) THEN step2
                 ELSE IF named # None THEN named
                 ELSE IF ~PyIsDigit(target) THEN FirstUser(users, {i \in 1..Len(users) : byFirstName(users[i].val)})
                 ELSE None
    IN  [user |-> step3, messages |-> msgs1]

ReplyTarget(target, sender, save) ==
    LET byMessage == PyStartsWith(PyLower(target), <<"m">>) /\ PyIsDigit(Tail(target))
        key == PyInt(Tail(target))
        hasRecord == byMessage /\ DictHas(messages, key)
        step1 == IF hasRecord THEN Some(messages[DictPos(messages, key)].val.from_id) ELSE None
        msgs1 == IF hasRecord
                 THEN mark_message_handled(messages, DigitsValue(key), sender, save).messages
                 ELSE messages
        uid == PyInt(target)
        step2 == IF step1 # None \/ ~PyIsDigit(target) THEN step1
                 ELSE IF DictHas(users, PyStr(uid)) THEN Some(uid)
                 ELSE IF NumGE(uid, 1) /\ NumLE(uid, Len(users))
                 THEN Some(SortedUsers(users)[DigitsValue(uid)].id)
                 ELSE None
        target_name == PyLower(PyLStripChars(target, {"@"}))
        byUsername(r) == r.username # <<>> /\ PyLower(r.username) = target_name
        byFirstName(r) == r.first_name # <<>> /\ PyLower(r.first_name) = target_name
        named == FirstUser(users, {i \in 1..Len(users) : byUsername(users[i].val)})
        step3 == IF step2 # None \/ ~(PyStartsWith(target, <<"@">>) \/ ~PyIsDigit(target)) THEN step2
                 ELSE IF named # None THEN named
                 ELSE IF ~PyIsDigit(target) THEN FirstUser(users, {i \in 1..Len(users) : byFirstName(users[i].val)})
                 ELSE None
    IN  [user |-> step3, messages |-> msgs1]

\* handle_reply_to_user
ReplyToUser(m, rok, save, sendOk) ==
    LET args == PySplit(m.text, 2)
        text == args[3]
        t == ReplyTarget(PyStrip(args[2]), m.from, save)
        o1 == [Base EXCEPT !.messages = t.messages]
        dm == Call("send_message", t.user[1], None, "reply", text, sendOk)
        o2 == [o1 EXCEPT !.calls = <<Reply(m, "sending", TRUE), dm>>]
    IN  IF ~is_admin(m.from) THEN {EndReply(Base, m, <<"denied", "error">>, rok)}
        ELSE IF Len(args) < 2
        THEN IF Len(users) = 0 THEN {EndReply(Base, m, <<"no_users", "error">>, rok)}
             ELSE {ReplyThenRecord(Base, m, <<"user_list", "error">>, rok)}
        ELSE IF Len(args) < 3 THEN {EndReply(Base, m, <<"usage", "error">>, rok)}
        ELSE IF t.user = None THEN {EndReply(o1, m, <<"unresolved", "error">>, rok)}
        ELSE IF ~rok THEN {EndReply(o1, m, <<"sending", "error">>, FALSE)}
        ELSE IF sendOk THEN {ReplyThenRecord(o2, m, <<"delivered">>, TRUE)}
        ELSE {EndReply(o2, m, <<"error">>, TRUE)}

\* ------------------------------------------------------------------------
\* Inputs
\* ------------------------------------------------------------------------

\* an inbound message: sender, chat (the sender's own id in a private chat),
\* text, the kind of the message it replies to and the kind of media attached
\* ("none" when there is none)
Msg(from, chat, text, reply, media) ==
    [from |-> from, chat |-> chat, text |-> text, reply |-> reply, media |-> media]

\* a private command message made of the given words
Private(from, ws, reply) == Msg(from, from, JoinSp(ws), reply, "none")

\* ------------------------------------------------------------------------
\* Group commands for the administrators of a chat
\* ------------------------------------------------------------------------

\* the answers of client.get_chat_member(chat_id, user_id): the call raised, or
\* the status of the member as str() shows it (None when there is none)
MemberAnswers ==
    {[raised |-> TRUE, status |-> None]} \cup
    {[raised |-> FALSE, status |-> s] :
        s \in {None,
               Some(<<"m", "e", "m", "b", "e", "r">>),
               Some(<<"a", "d", "m", "i", "n", "i", "s", "t", "r", "a", "t", "o", "r">>),
               Some(<<"C", "h", "a", "t", "M", "e", "m", "b", "e", "r", "S", "t", "a", "t",
                      "u", "s", ".", "O", "W", "N", "E", "R">>)}}

\* _is_chat_admin(client, chat_id, user_id), given the answer of get_chat_member
MutChatAdminFailsOpen(answer) ==
    LET Test(status_str) ==
            \E w \in {<<"a", "d", "m", "i", "n", "i", "s", "t", "r", "a", "t", "o", "r">>,
                       <<"c", "r", "e", "a", "t", "o", "r">>, <<"o", "w", "n", "e", "r">>} :
                PyContains(status_str, w)
    IN  IF answer.raised THEN TRUE
        ELSE Test(IF answer.status # None /\ answer.status[1] # <<>>
                  THEN PyLower(answer.status[1]) ELSE <<>>)

_is_chat_admin(answer) ==
    LET Test(status_str) ==
            \E w \in {<<"a", "d", "m", "i", "n", "i", "s", "t", "r", "a", "t", "o", "r">>,
                       <<"c", "r", "e", "a", "t", "o", "r">>, <<"o", "w", "n", "e", "r">>} :
                PyContains(status_str, w)
    IN  IF answer.raised THEN FALSE
        ELSE Test(IF answer.status # None /\ answer.status[1] # <<>>
                  THEN PyLower(answer.status[1]) ELSE <<>>)

\* a moderation call on the member the command replies to (or names), which
\* the platform accepts or not, followed by the handler's replies
Moderate(m, rok, api, tag) ==
    {EndReply([Base EXCEPT !.calls = <<Call(api, m.chat, None, tag, None, TRUE)>>],
              m, <<tag, "failed", "error">>, rok),
     EndReply([Base EXCEPT !.calls = <<Call(api, m.chat, None, tag, None, FALSE)>>],
              m, <<"failed", "error">>, rok)}

\* handle_restrict
Restrict(m, rok, chatAdmin) ==
    IF ~chatAdmin THEN {EndReply(Base, m, <<"denied", "error">>, rok)}
    ELSE IF m.reply = "none" THEN {EndReply(Base, m, <<"need_reply", "error">>, rok)}
    ELSE Moderate(m, rok, "restrict_chat_member", "restricted")

\* handle_unrestrict
Unrestrict(m, rok, chatAdmin) ==
    IF ~chatAdmin THEN {EndReply(Base, m, <<"denied", "error">>, rok)}
    ELSE IF m.reply = "none" THEN {EndReply(Base, m, <<"need_reply", "error">>, rok)}
    ELSE Moderate(m, rok, "restrict_chat_member", "unrestricted")

\* handle_unban: the member is the author of the replied message or the one
\* the command names
Unban(m, rok, chatAdmin) ==
    IF ~chatAdmin THEN {EndReply(Base, m, <<"denied", "error">>, rok)}
    ELSE IF m.reply = "none" /\ Len(PySplitAll(m.text)) <= 1
    THEN {EndReply(Base, m, <<"need_target", "error">>, rok)}
    ELSE Moderate(m, rok, "unban_chat_member", "unbanned")

\* handle_topics (group chat): the answer of get_forum_topics decides the text
TopicsGroup(m, rok, chatAdmin) ==
    LET tag(live) == IF ~live.avail THEN "topics_manual"
                     ELSE IF Len(live.list) = 0 THEN "topics_none"
                     ELSE "topics_list"
    IN  IF ~chatAdmin THEN {EndReply(Base, m, <<"denied", "error">>, rok)}
        ELSE {EndReply(Base, m, <<tag(live), "topics_error", "error">>, rok) : live \in LiveAnswers}

\* handle_groupinfo
GroupInfo(m, rok, chatAdmin) ==
    IF ~chatAdmin THEN {EndReply(Base, m, <<"denied", "error">>, rok)}
    ELSE {ReplyThenRecord(Base, m, <<"info", "error">>, rok)}

\* handle_send_photo_group, handle_send_video_group, handle_send_document_group:
\* the replied media is copied into the chat of the command, unless the replied
\* message has no message_id attribute
SendMediaGroup(kind, m, rok, chatAdmin) ==
    LET copy(ok) == Call("copy_message", m.chat, None, "plain", None, ok)
    IN  IF ~chatAdmin THEN {EndReply(Base, m, <<"denied", "error">>, rok)}
        ELSE IF m.reply # kind THEN {EndReply(Base, m, <<"need_media", "error">>, rok)}
        ELSE {IF rok
              THEN [EndReply([Base EXCEPT !.calls = <<copy(TRUE)>>], m, <<"copied">>, TRUE)
                      EXCEPT !.users = record_user_interaction(@, m.from)]
              ELSE EndReply([Base EXCEPT !.calls = <<copy(TRUE)>>], m,
                            <<"copied", "failed", "error">>, FALSE),
              EndReply([Base EXCEPT !.calls = <<copy(FALSE)>>], m, <<"failed", "error">>, rok),
              EndReply(Base, m, <<"no_id", "failed", "error">>, rok)}

\* the handler of a group command that is guarded by _is_chat_admin
GroupCommand(cmd, m, rok, chatAdmin) ==
    CASE cmd = "restrict" -> Restrict(m, rok, chatAdmin)
      [] cmd = "unrestrict" -> Unrestrict(m, rok, chatAdmin)
      [] cmd = "unban" -> Unban(m, rok, chatAdmin)
      [] cmd = "addtopic" -> AddTopic(m, rok, chatAdmin)
      [] cmd = "topics_group" -> TopicsGroup(m, rok, chatAdmin)
      [] cmd = "groupinfo" -> GroupInfo(m, rok, chatAdmin)
      [] cmd = "forward_group" -> ForwardGroup(m, rok, chatAdmin)
      [] cmd = "send_photo_group" -> SendMediaGroup("photo", m, rok, chatAdmin)
      [] cmd = "send_video_group" -> SendMediaGroup("video", m, rok, chatAdmin)
      [] OTHER -> SendMediaGroup("document", m, rok, chatAdmin)

\* handle_auto_register, for a service message m whose chat has the given
\* title and whose new_chat_members are the given users (none for the other
\* kinds of service message); every exception ends the handler silently
AutoRegister(m, title, new_chat_members, chatAdmin, rok) ==
    LET group_name == IF title # <<>> THEN title ELSE DefaultGroupName(m.chat)
    IN  IF ~\E i \in 1..Len(new_chat_members) :
               new_chat_members[i].is_bot /\ new_chat_members[i].username = BOT_USERNAME
        THEN {Base}
        ELSE IF m.from = None THEN {Base}
        ELSE IF ~chatAdmin THEN {Base}
        ELSE IF DictHas(groups, PyStr(m.chat)) THEN {Base}
        ELSE {[Base EXCEPT !.groups = add_managed_group(@, m.chat, group_name),
                           !.calls = <<SetCommands, Reply(m, "registered", rok)>>]}

\* ------------------------------------------------------------------------
\* Coroutines.  Every handler is a coroutine on one event loop: it runs alone
\* from one await to the next, and other handlers run while it is suspended.
\* The steps of a handler are its reads and writes of the stores and its
\* awaits, in source order along the path it takes for message m (replies get
\* through); a handler in flight keeps the copies of the stores it has read
\* in its local variables.
\* ------------------------------------------------------------------------

\* store = load_...()
Load(store) == [op |-> "load", store |-> store]

\* an early return when the copy just read does not allow the write
Check(store) == [op |-> "check", store |-> store]

\* save_...(store)
Save(store) == [op |-> "save", store |-> store]

\* an await: the handler is suspended until the platform answers
Await == [op |-> "await", store |-> "none"]

\* record_user_interaction (load 416, save 425)
RecordUserSteps == <<Load("users"), Save("users")>>

\* handle_editgroupname: load 676, early returns 677-685, save 693, reply 695,
\* record_user_interaction 703
EditGroupNameSteps(m) ==
    LET args == PySplit(m.text, 2)
    IN  IF ~is_admin(m.from) \/ Len(args) < 3 \/ ~PyIntOk(args[2]) THEN <<Await>>
        ELSE <<Load("groups"), Check("groups"), Save("groups"), Await>> \o RecordUserSteps

\* handle_addgroup: add_managed_group 581 (load 436, save 438), the command
\* refresh 584, reply 587
AddGroupSteps(m) ==
    LET args == PySplit(m.text, 2)
    IN  IF ~is_admin(m.from) \/ Len(args) < 2 \/ ~PyIntOk(args[2]) THEN <<Await>>
        ELSE <<Load("groups"), Save("groups"), Await, Await>>

\* handle_clearinbox: load 2588, early returns 2589-2599, save 2611, reply 2613
ClearInboxSteps(m) ==
    LET args == PySplitAll(m.text)
    IN  IF ~is_admin(m.from) \/ (Len(args) > 1 /\ ~PyIntOk(args[2])) THEN <<Await>>
        ELSE <<Load("messages"), Check("messages"), Save("messages"), Await>>

\* capture_private_messages: record_user_interaction 2637, add_message_record
\* 2638 (load 337, save 362), one notification per admin 2644
CapturePrivateSteps(m) ==
    IF (m.text # <<>> /\ PyStartsWith(m.text, <<"/">>)) \/ is_bot(m.from) \/ is_admin(m.from)
    THEN <<>>
    ELSE RecordUserSteps \o <<Load("messages"), Save("messages")>>
         \o [i \in 1..Len(ADMINS) |-> Await]

\* handle_addtopic sent by an administrator of the chat: _is_chat_admin 936,
\* add_topic_mapping 964 (load 312, save 317), reply 966
AddTopicSteps(m) ==
    LET args == PySplit(m.text, 2)
    IN  IF Len(args) < 3 \/ ~PyIntOk(args[3]) THEN <<Await, Await>>
        ELSE <<Await, Load("topics"), Save("topics"), Await>>

\* the topic list the platform gives a suspended _resolve_topic_id
LiveTopics == LiveAnswer(TRUE, <<TopicGeneral5, TopicGeneral7>>)

\* _resolve_topic_id(client, m.chat, m.text) for a topic name: get_topic_id_by_name
\* 155 (load 322), return 156-158, get_forum_topics 162, add_topic_mapping 168
\* (load 312, save 317)
ResolveTopicSteps(m) ==
    LET Matched(clean_input) ==
            LiveTopicLookup(EmptyMap, m.chat, clean_input, LiveTopics, TRUE).found
        With(clean_input) ==
            IF clean_input = <<>> \/ TopicNumber(clean_input) # None THEN <<>>
            ELSE IF Matched(clean_input)
            THEN <<Load("topics"), Check("topics"), Await, Load("topics"), Save("topics")>>
            ELSE <<Load("topics"), Check("topics"), Await>>
    IN  With(PyStripChars(m.text, QuoteChars))

Steps(cmd, m) ==
    CASE cmd = "editgroupname" -> EditGroupNameSteps(m)
      [] cmd = "addgroup" -> AddGroupSteps(m)
      [] cmd = "clearinbox" -> ClearInboxSteps(m)
      [] cmd = "capture_private" -> CapturePrivateSteps(m)
      [] cmd = "addtopic" -> AddTopicSteps(m)
      [] cmd = "_resolve_topic_id" -> ResolveTopicSteps(m)
      [] OTHER -> <<>>

\* whether the handler goes on after reading copy
GoesOn(cmd, m, copy) ==
    CASE cmd = "editgroupname" ->
            LET InRange(group_index) == NumGE(group_index, 1) /\ NumLE(group_index, Len(copy))
            IN  Len(copy) # 0 /\ InRange(PyInt(PySplit(m.text, 2)[2]))
      [] cmd = "clearinbox" -> \E i \in 1..Len(copy) : ~copy[i].val.handled
      [] cmd = "_resolve_topic_id" ->
            ~Truthy(get_topic_id_by_name(copy, m.chat, PyStripChars(m.text, QuoteChars)))
      [] OTHER -> TRUE

\* what the handler writes back, computed from the copy it holds
Update(cmd, m, store, copy) ==
    CASE store = "users" -> record_user_interaction(copy, m.from)
      [] cmd = "editgroupname" ->
            LET Renamed(pos, new_name) ==
                    [copy EXCEPT ![pos] = [key |-> copy[pos].key, val |-> [name |-> new_name]]]
                With(args) ==
                    Renamed(DigitsValue(PyInt(args[2])), PyStripChars(args[3], QuoteChars))
            IN  With(PySplit(m.text, 2))
      [] cmd = "addgroup" ->
            LET Added(group_id, args) ==
                    add_managed_group(copy, group_id,
                                      IF Len(args) > 2 THEN args[3]
                                      ELSE DefaultGroupName(group_id))
                With(args) == Added(PyInt(args[2]), args)
            IN  With(PySplit(m.text, 2))
      [] cmd = "clearinbox" ->
            LET With(args) ==
                    [i \in 1..Len(copy) |->
                        IF Len(args) <= 1 \/ NumLE(PyInt(args[2]), 0)
                           \/ NumGE(PyInt(args[2]),
                                    Cardinality({j \in 1..i : ~copy[j].val.handled}))
                        THEN [copy[i] EXCEPT !.val.handled = TRUE]
                        ELSE copy[i]]
            IN  With(PySplitAll(m.text))
      [] cmd = "capture_private" ->
            add_message_record(copy, m, TRUE, TRUE, TRUE, TRUE).messages
      [] cmd = "addtopic" ->
            LET With(args) ==
                    add_topic_mapping(copy, m.chat, PyStripChars(args[2], QuoteChars),
                                      PySmallInt(args[3]))
            IN  With(PySplit(m.text, 2))
      [] OTHER ->
            LiveTopicLookup(copy, m.chat, PyStripChars(m.text, QuoteChars), LiveTopics,
                            TRUE).topics

\* the local variables of a handler that has read nothing yet
NoCopies == [groups |-> None, users |-> None, messages |-> None, topics |-> None]

\* a free place among the handlers in flight
Idle == [cmd |-> "idle", m |-> None, pc |-> 1, loc |-> NoCopies]

\* the handlers in flight the model explores
MaxTasks == 2

\* the handler runs from step e.pc until it is suspended or returns
RECURSIVE RunSlice(_, _, _, _)
RunSlice(prog, cmd, m, e) ==
    LET Loaded(store) == [e EXCEPT !.loc[store] = Some(e.stores[store]), !.pc = @ + 1]
        Saved(store, v) ==
            [e EXCEPT !.stores[store] = v, !.loc[store] = Some(v), !.pc = @ + 1]
        Do(s) ==
            IF s.op = "await" THEN [e EXCEPT !.pc = @ + 1]
            ELSE IF s.op = "load" THEN RunSlice(prog, cmd, m, Loaded(s.store))
            ELSE IF s.op = "check"
            THEN IF GoesOn(cmd, m, e.loc[s.store][1])
                 THEN RunSlice(prog, cmd, m, [e EXCEPT !.pc = @ + 1])
                 ELSE [e EXCEPT !.pc = Len(prog) + 1]
            ELSE RunSlice(prog, cmd, m, Saved(s.store, Update(cmd, m, s.store, e.loc[s.store][1])))
    IN  IF e.pc > Len(prog) THEN e ELSE Do(prog[e.pc])

\* ------------------------------------------------------------------------
\* State machine
\* ------------------------------------------------------------------------

\* the largest number of managed groups the model explores
MaxGroups == 2

\* the wall clock (seconds since the epoch) when the bot starts
Epoch == 1700000000

\* the number of seconds the model lets pass
MaxTicks == 1

\* the largest number of inbox records the model explores
MaxMessages == 3

Init ==
    /\ groups = <<>>
    /\ users = <<>>
    /\ messages = <<>>
    /\ topics = EmptyMap
    /\ clock = Epoch
    /\ last = [cmd |-> "none", from |-> None, chat |-> None, text |-> None,
               reply |-> "none", media |-> "none",
               calls |-> <<>>, res |-> None, tgt |-> None, idx |-> None, copy |-> None,
               member |-> None, event |-> None]
    /\ tasks = [i \in 1..MaxTasks |-> Idle]

\* the handler cmd ran on message m with outcome o
Commit(cmd, m, o) ==
    /\ Len(o.groups) <= MaxGroups
    /\ Len(o.messages) <= MaxMessages
    /\ groups' = o.groups
    /\ users' = o.users
    /\ messages' = o.messages
    /\ topics' = o.topics
    /\ clock' = clock
    /\ last' = [cmd |-> cmd, from |-> m.from, chat |-> m.chat, text |-> m.text,
                reply |-> m.reply, media |-> m.media,
                calls |-> o.calls, res |-> o.res, tgt |-> o.tgt, idx |-> o.idx, copy |-> None,
                member |-> o.member, event |-> o.event]
    /\ UNCHANGED tasks

HandleAddGroup(msgs) ==
    \E m \in msgs, rok \in BOOLEAN : \E o \in AddGroup(m, rok) : Commit("addgroup", m, o)

HandleRemoveGroup(msgs) ==
    \E m \in msgs, rok \in BOOLEAN : \E o \in RemoveGroup(m, rok) : Commit("removegroup", m, o)

HandleEditGroupName(msgs) ==
    \E m \in msgs, rok \in BOOLEAN : \E o \in EditGroupName(m, rok) : Commit("editgroupname", m, o)

\* a group command whose handler asks _is_chat_admin first; answer is what
\* get_chat_member gives
HandleGroupCommand(cmd, msgs) ==
    \E m \in msgs, rok \in BOOLEAN, answer \in MemberAnswers :
        \E o \in GroupCommand(cmd, m, rok, _is_chat_admin(answer)) :
            Commit(cmd, m, [o EXCEPT !.member = Some(answer)])

HandleAddTopic(msgs) == HandleGroupCommand("addtopic", msgs)

\* a service message arrives; ev: the message, the title of its chat and the
\* users it announces
HandleAutoRegister(events) ==
    \E ev \in events, rok \in BOOLEAN, answer \in MemberAnswers :
        \E o \in AutoRegister(ev.m, ev.title, ev.new_chat_members, _is_chat_admin(answer), rok) :
            Commit("auto_register", ev.m,
                   [o EXCEPT !.member = Some(answer),
                             !.event = Some([title |-> ev.title,
                                             new_chat_members |-> ev.new_chat_members])])

HandleSendPhoto(msgs) ==
    \E m \in msgs, rok \in BOOLEAN : \E o \in SendMedia("photo", m, rok) : Commit("send_photo", m, o)

HandleSendVideo(msgs) ==
    \E m \in msgs, rok \in BOOLEAN : \E o \in SendMedia("video", m, rok) : Commit("send_video", m, o)

HandleSendDocument(msgs) ==
    \E m \in msgs, rok \in BOOLEAN :
        \E o \in SendMedia("document", m, rok) : Commit("send_document", m, o)

HandleSay(msgs) ==
    \E m \in msgs, rok \in BOOLEAN : \E o \in Say(m, rok) : Commit("say", m, o)

HandleForwardPrivate(msgs) ==
    \E m \in msgs, rok \in BOOLEAN : \E o \in ForwardPrivate(m, rok) : Commit("forward", m, o)

HandleForwardGroup(msgs) == HandleGroupCommand("forward_group", msgs)

HandleAdmin(msgs) ==
    \E m \in msgs, rok \in BOOLEAN : \E o \in AdminPanel(m, rok) : Commit("admin", m, o)

HandleListGroups(msgs) ==
    \E m \in msgs, rok \in BOOLEAN : \E o \in ListGroups(m, rok) : Commit("listgroups", m, o)

HandleListUsers(msgs) ==
    \E m \in msgs, rok \in BOOLEAN : \E o \in ListUsers(m, rok) : Commit("listusers", m, o)

HandleTopicsPrivate(msgs) ==
    \E m \in msgs, rok \in BOOLEAN : \E o \in TopicsPrivate(m, rok) : Commit("topics", m, o)

HandleBroadcast(msgs) ==
    \E m \in msgs, rok \in BOOLEAN : \E o \in Broadcast(m, rok) : Commit("broadcast", m, o)

HandleReplyToUser(msgs) ==
    \E m \in msgs, rok \in BOOLEAN, save \in BOOLEAN, sendOk \in BOOLEAN :
        \E o \in ReplyToUser(m, rok, save, sendOk) : Commit("reply", m, o)

HandleInbox(msgs) ==
    \E m \in msgs, rok \in BOOLEAN : \E o \in Inbox(m, rok) : Commit("inbox", m, o)

HandleViewMessage(msgs) ==
    \E m \in msgs, rok \in BOOLEAN, original \in BOOLEAN, copyOk \in BOOLEAN :
        \E o \in ViewMessage(m, rok, original, copyOk) : Commit("view", m, o)

HandleResolveMessage(msgs) ==
    \E m \in msgs, rok \in BOOLEAN, save \in BOOLEAN :
        \E o \in ResolveMessage(m, rok, save) : Commit("resolve", m, o)

HandleClearInbox(msgs) ==
    \E m \in msgs, rok \in BOOLEAN, save \in BOOLEAN :
        \E o \in ClearInbox(m, rok, save) : Commit("clearinbox", m, o)

HandleCapturePrivate(msgs) ==
    \E m \in msgs : \E o \in CapturePrivate(m) : Commit("capture_private", m, o)

HandleCaptureGroupMentions(msgs) ==
    \E m \in msgs : \E o \in CaptureGroupMentions(m) : Commit("capture_group", m, o)

\* a delivery helper ran for a source message of the given kind, called by a
\* handler that had resolved target_chat and topic_id; c is what it did
Helper(fn, kind, target_chat, topic_id, c) ==
    /\ last' = [cmd |-> fn, from |-> None, chat |-> target_chat, text |-> None,
                reply |-> kind, media |-> "none",
                calls |-> c.calls, res |-> None, tgt |-> None, idx |-> None,
                copy |-> Some([topic_id |-> topic_id, raised |-> c.raised,
                               temp_file |-> c.temp_file, remove_raised |-> c.remove_raised,
                               exists |-> c.exists]),
                member |-> None, event |-> None]
    /\ UNCHANGED <<groups, users, messages, topics, clock, tasks>>

CopyMediaToTarget(kinds, chats, topic_ids) ==
    \E kind \in kinds, target_chat \in chats, topic_id \in topic_ids :
        \E c \in _copy_media_to_target(kind, target_chat, topic_id) :
            Helper("_copy_media_to_target", kind, target_chat, topic_id, c)

DownloadAndUploadToTopic(kinds, chats, topic_ids) ==
    \E kind \in kinds, target_chat \in chats, topic_id \in topic_ids :
        \E c \in _download_and_upload_to_topic(kind, target_chat, topic_id) :
            Helper("_download_and_upload_to_topic", kind, target_chat, topic_id, c)

\* the content of the four stores by name
Stores == [groups |-> groups, users |-> users, messages |-> messages, topics |-> topics]

\* a message arrives and its handler is started in the first free place
Dispatch(cmd, msgs) ==
    \E m \in msgs :
        /\ \E i \in 1..MaxTasks : tasks[i].cmd = "idle"
        /\ tasks' = [tasks EXCEPT ![MinOf({j \in 1..MaxTasks : tasks[j].cmd = "idle"})] =
                                    [Idle EXCEPT !.cmd = cmd, !.m = m]]
        /\ UNCHANGED <<groups, users, messages, topics, clock, last>>

\* the event loop resumes the handler in place i, which runs until its next
\* await or its return
Resume(i) ==
    LET Ran(t, n, e) ==
            /\ Len(e.stores.groups) <= MaxGroups
            /\ Len(e.stores.messages) <= MaxMessages
            /\ groups' = e.stores.groups
            /\ users' = e.stores.users
            /\ messages' = e.stores.messages
            /\ topics' = e.stores.topics
            /\ tasks' = [tasks EXCEPT ![i] = IF e.pc > n THEN Idle
                                              ELSE [t EXCEPT !.pc = e.pc, !.loc = e.loc]]
            /\ UNCHANGED <<clock, last>>
        Run(t, prog) ==
            Ran(t, Len(prog),
                RunSlice(prog, t.cmd, t.m,
                         [stores |-> Stores, loc |-> t.loc, pc |-> t.pc]))
    IN  /\ tasks[i].cmd # "idle"
        /\ Run(tasks[i], Steps(tasks[i].cmd, tasks[i].m))

\* time passes
Tick ==
    /\ clock < Epoch + MaxTicks
    /\ clock' = clock + 1
    /\ UNCHANGED <<groups, users, messages, topics, last, tasks>>

\* ------------------------------------------------------------------------
\* Topic resolution: the managed groups and the topic mappings change, and
\* /send_photo resolves every kind of topic token
\* ------------------------------------------------------------------------

AddGroupMsgs == {Private(Admin1, <<CmdAddGroup, WGroupA>>, "none")}

AddTopicMsgs ==
    {Msg(Admin1, WGroupA, JoinSp(<<CmdAddTopic, w, i>>), "none", "none") :
        w \in {WQGeneral}, i \in {<<"9">>, <<"0">>}}

ResolveTokens ==
    {WTopic5, <<"0", "1", "2">>, WQGeneral, WgeneralLower, WQPadGeneral, WTopicBad, WArt, WTopic0}

ResolveMsgs ==
    {Private(Admin1, <<CmdSendPhoto, <<"1">>, k>>, "none") : k \in ResolveTokens}

NextResolve ==
    \/ HandleAddGroup(AddGroupMsgs)
    \/ HandleAddTopic(AddTopicMsgs)
    \/ HandleSendPhoto(ResolveMsgs)

SpecResolve == Init /\ [][NextResolve]_vars

\* the _resolve_topic_id call of the last handler
LastRes == last.res[1]

\* the token of the last resolution without its surrounding quotes
LastClean == PyStripChars(LastRes.token, QuoteChars)

\* s is a non-empty string of decimal digits
AsciiDigits(s) == Len(s) > 0 /\ \A i \in 1..Len(s) : s[i] \in {"0", "1", "2", "3", "4", "5", "6", "7", "8", "9"}

\* s is "topic_" followed by decimal digits
TopicDigits(s) ==
    Len(s) > 6 /\ SubSeq(s, 1, 6) = TopicPrefix /\ AsciiDigits(SubSeq(s, 7, Len(s)))

\* the token names a topic by free text: neither numeric form applies
FreeText(s) == ~AsciiDigits(s) /\ ~TopicDigits(s)

\* the key the name s has in a mapping: lower-cased and trimmed
NormalName(s) == PyStrip(PyLower(s))

\* the name s is mapped for the chat in the mapping store t
Mapped(t, chat, s) == chat \in DOMAIN t /\ NormalName(s) \in DOMAIN t[chat]

\* the positions of the live list whose title equals the name s, both
\* lower-cased and trimmed
LiveMatches(live, s) ==
    {i \in 1..Len(live.list) : NormalName(live.list[i].title) = NormalName(s)}

\* the first topic of the live list whose title equals the name s
FirstLiveMatch(live, s) ==
    live.list[CHOOSE i \in LiveMatches(live, s) : \A j \in LiveMatches(live, s) : i <= j]

\* C1: a token of the form topic_<digits> resolves to that integer, and a
\* purely numeric token resolves to that integer, and in both cases neither the
\* persisted mapping nor the live topic list is consulted.
C1_NumericTokenResolves ==
    last.res # None =>
        /\ TopicDigits(LastClean) =>
              /\ LastRes.result = Some(DigitsValue(SubSeq(LastClean, 7, Len(LastClean))))
              /\ ~LastRes.usedMapping /\ ~LastRes.usedLive
        /\ AsciiDigits(LastClean) =>
              /\ LastRes.result = Some(DigitsValue(LastClean))
              /\ ~LastRes.usedMapping /\ ~LastRes.usedLive

\* C1 witness: /send_photo resolved the token topic_5 to 5 in a chat whose
\* mapping store is not empty
C1_Witness ==
    /\ last.res # None
    /\ LastRes.token = WTopic5
    /\ LastRes.result = Some(5)
    /\ LastRes.before # EmptyMap

\* C2: for a free-text token whose lower-cased, trimmed name is a key of the
\* chat's persisted mapping, the mapped id is returned and the live topic list
\* is not queried.
C2_MappedNameWins ==
    (last.res # None /\ FreeText(LastClean) /\ Mapped(LastRes.before, LastRes.chat, LastClean)) =>
        /\ LastRes.result = Some(LastRes.before[LastRes.chat][NormalName(LastClean)])
        /\ ~LastRes.usedLive

\* C3: when the name is not in the mapping and a title of the live list equals
\* it (lower-cased, trimmed), the first such topic's id is returned and
\* (chat, title) -> id is in the mapping store afterwards.
C3_LiveMatchPersisted ==
    (/\ last.res # None
     /\ FreeText(LastClean)
     /\ ~Mapped(LastRes.before, LastRes.chat, LastClean)
     /\ LastRes.usedLive
     /\ LastRes.live[1].avail
     /\ LiveMatches(LastRes.live[1], LastClean) # {}) =>
        LET hit == FirstLiveMatch(LastRes.live[1], LastClean)
        IN  /\ LastRes.result = Some(hit.id)
            /\ Mapped(topics, LastRes.chat, hit.title)
            /\ topics[LastRes.chat][NormalName(hit.title)] = hit.id

\* C4: once a name was resolved through the live list, every later call with
\* the same token and chat returns the same id from the persisted mapping,
\* whatever the live enumeration answers and also when it is unavailable.
C4_LaterCallsUseMapping ==
    (last.res # None /\ LastRes.liveHit /\ LastRes.persisted) =>
        \A live \in LiveAnswers, saveOk \in BOOLEAN :
            LET again == _resolve_topic_id(topics, LastRes.chat, LastRes.token, live, saveOk)
            IN  again.result = LastRes.result /\ ~again.usedLive

\* C5: _resolve_topic_id never raises: it returns an integer or None, and None
\* when the token has no numeric form, the mapping has no id for it and the
\* live list is unavailable or has no matching title.
C5_ResolveNeverRaises ==
    last.res # None =>
        /\ ~LastRes.raised
        /\ LastRes.result = None \/ (Len(LastRes.result) = 1 /\ LastRes.result[1] \in Int)
        /\ (/\ FreeText(LastClean)
            /\ ~Truthy(get_topic_id_by_name(LastRes.before, LastRes.chat, LastClean))
            /\ (~LastRes.live[1].avail \/ LiveMatches(LastRes.live[1], LastClean) = {}))
           => LastRes.result = None

\* C5 witness: the platform refused the topic enumeration for an unmapped name
\* and the resolution ended with None
C5_Witness ==
    /\ last.res # None
    /\ LastRes.usedLive
    /\ ~LastRes.live[1].avail
    /\ LastRes.result = None
    /\ ~LastRes.raised

\* ------------------------------------------------------------------------
\* Sending: every send command, with and without a topic token, with and
\* without something to deliver
\* ------------------------------------------------------------------------

SendTokens == {WArt, WTopicBad, WTopic5}

\* the words after the command: the target alone, or the target and a token
SendArgs(tokens) == {<<(<<"1">>)>>} \cup {<<(<<"1">>), k>> : k \in tokens}

\* command messages replying to a message of the given kind, or to none, and
\* one carrying the media itself
SendMediaMsgs(cmd, kind, tokens) ==
    {Msg(Admin1, Admin1, JoinSp(<<cmd>> \o a), r, "none") :
        a \in SendArgs(tokens), r \in {kind, "none"}}
    \cup {Msg(Admin1, Admin1, JoinSp(<<cmd, <<"1">>, WArt>>), "none", kind)}

SayMsgs ==
    {Private(Admin1, <<CmdSay, <<"1">>, WHello>>, "none")}
    \cup {Private(Admin1, <<CmdSay, <<"1">>, k, WHello>>, "none") : k \in SendTokens}

ForwardPrivateMsgs ==
    {Msg(Admin1, Admin1, JoinSp(<<CmdForward>> \o a), r, "none") :
        a \in SendArgs({WArt, WTopic5}), r \in {"photo", "none"}}

ForwardGroupMsgs ==
    {Msg(Admin1, WGroupA, JoinSp(<<CmdForward>> \o a), "photo", "none") : a \in SendArgs({WArt})}

NextSend ==
    \/ HandleAddGroup(AddGroupMsgs)
    \/ HandleSendPhoto(SendMediaMsgs(CmdSendPhoto, "photo", SendTokens))
    \/ HandleSendVideo(SendMediaMsgs(CmdSendVideo, "video", {WArt}))
    \/ HandleSendDocument(SendMediaMsgs(CmdSendDocument, "document", {WTopicBad}))
    \/ HandleSay(SayMsgs)
    \/ HandleForwardPrivate(ForwardPrivateMsgs)
    \/ HandleForwardGroup(ForwardGroupMsgs)

SpecSend == Init /\ [][NextSend]_vars

\* the commands that send into a group, by the handler that ran
SendCmds == {"say", "send_photo", "send_video", "send_document", "forward", "forward_group"}

\* the platform methods that deliver something into a chat
OutboundApis ==
    {"send_message", "copy_message", "forward_messages", "send_photo", "send_video",
     "send_document", "send_audio", "send_animation"}

\* the last handler was given a topic token and its resolution found nothing
TopicNotFound == last.cmd \in SendCmds /\ last.res # None /\ LastRes.result = None

\* the positions of the warning reply among the last handler's calls
WarningAt == {i \in 1..Len(last.calls) : last.calls[i].api = "reply_text" /\ last.calls[i].tag = "warn_topic"}

\* the last handler, after warning at position i, sent to the target group
\* outside any topic, and sent nothing into a topic
SentWithoutTopicAfter(i) ==
    /\ \E j \in (i + 1)..Len(last.calls) :
          /\ last.calls[j].api \in OutboundApis
          /\ last.calls[j].to = last.tgt[1].norm
          /\ last.calls[j].thread = None
    /\ \A j \in 1..Len(last.calls) :
          last.calls[j].api \in OutboundApis => last.calls[j].thread = None

\* the media the last media command is about: "none" for /say and /forward
CommandKind ==
    CASE last.cmd = "send_photo" -> "photo"
      [] last.cmd = "send_video" -> "video"
      [] last.cmd = "send_document" -> "document"
      [] OTHER -> "none"

\* a media command has something to deliver: it replies to or carries media of
\* its kind, or its last argument can be a file path (it neither starts with
\* topic_ nor is a number of up to three digits)
HasPayload ==
    CommandKind # "none" =>
        \/ last.reply = CommandKind
        \/ last.media = CommandKind
        \/ ~(\/ (Len(LastRes.token) >= 6 /\ SubSeq(LastRes.token, 1, 6) = TopicPrefix)
             \/ (AsciiDigits(LastRes.token) /\ Len(LastRes.token) <= 3))

WGroupC == <<"9", "9", "9", "9", "9", "9", "9", "9", "9", "9", "9", "9">>

TargetAddMsgs ==
    {Private(Admin1, <<CmdAddGroup, WGroupA>>, "none"),
     Private(Admin1, <<CmdAddGroup, WGroupB, WName>>, "none"),
     Private(Admin1, <<CmdAddGroup, WGroupC>>, "none")}

TargetRemoveMsgs ==
    {Private(Admin1, <<CmdRemoveGroup, WGroupA>>, "none"),
     Private(Admin1, <<CmdRemoveGroup, WGroupB>>, "none")}

TargetTokens ==
    {<<"1">>, <<"2">>, <<"3">>, <<"4">>, <<"0">>, <<"-", "0">>, <<"-", "5">>, <<"7">>, <<"+", "7">>,
     <<"0", "2">>, <<"9", "9", "9">>, <<"1", "0", "0", "0">>, <<"x">>, WGroupA, WGroupC}

TargetSayMsgs == {Private(Admin1, <<CmdSay, k, WHello>>, "none") : k \in TargetTokens}

NextTarget ==
    \/ HandleAddGroup(TargetAddMsgs)
    \/ HandleRemoveGroup(TargetRemoveMsgs)
    \/ HandleSay(TargetSayMsgs)

SpecTarget == Init /\ [][NextTarget]_vars

\* the target the last handler computed from its first argument
LastTgt == last.tgt[1]

\* the token is an integer n with 1 <= n <= 999 and n <= the number of managed
\* groups (n <= 999 iff its numeral without leading zeros has at most 3 digits)
InIndexRange(token) ==
    /\ PyInt(token)[1] # "-"
    /\ Len(PyInt(token)) <= 3
    /\ DigitsValue(PyInt(token)) >= 1
    /\ DigitsValue(PyInt(token)) <= Len(groups)

\* C7: _get_group_id_from_index maps a numeric n with 1 <= n <= 999 and
\* n <= the number of managed groups to the n-th key of the store in insertion
\* order (is_index true), and any other numeric n to n itself (is_index false).
C7_IndexOrLiteral ==
    (last.tgt # None /\ PyIntOk(LastTgt.token)) =>
        /\ ~LastTgt.exc
        /\ IF InIndexRange(LastTgt.token)
           THEN /\ LastTgt.is_index
                /\ LastTgt.gid_str = groups[DigitsValue(PyInt(LastTgt.token))].key
                /\ LastTgt.gid = PyInt(LastTgt.gid_str)
           ELSE /\ ~LastTgt.is_index
                /\ LastTgt.gid_str = LastTgt.token
                /\ LastTgt.gid = PyInt(LastTgt.token)

\* C7 witness: with two managed groups, /say 2 addressed the second one
C7_Witness ==
    /\ last.tgt # None
    /\ LastTgt.token = <<"2">>
    /\ Len(groups) = 2
    /\ LastTgt.is_index
    /\ LastTgt.gid_str = groups[2].key

\* the digits of a numeral without its sign
Magnitude(n) == IF n[1] = "-" THEN Tail(n) ELSE n

\* the value of the last six digits of a digit string, and of the digits before
LowLimb(d) == DigitsValue(SubSeq(d, IF Len(d) > 6 THEN Len(d) - 5 ELSE 1, Len(d)))

HighLimb(d) == IF Len(d) > 6 THEN DigitsValue(SubSeq(d, 1, Len(d) - 6)) ELSE 0

\* C8: _normalize_group_id maps g >= 0 to -1000000000000 - g and leaves g < 0
\* unchanged; its result is always negative, and normalizing it again changes
\* nothing.
C8_NormalizeGroupId ==
    (last.tgt # None /\ ~LastTgt.exc) =>
        LET g == PyInt(LastTgt.gid_str)
            n == LastTgt.norm
        IN  /\ n[1] = "-"
            /\ Magnitude(n)[1] # "0"
            /\ g[1] = "-" => n = g
            /\ g[1] # "-" =>
                  /\ LowLimb(Magnitude(n)) = LowLimb(g)
                  /\ HighLimb(Magnitude(n)) = HighLimb(g) + 1000000
            /\ _normalize_group_id(n) = [exc |-> FALSE, val |-> n]

\* C8 witness: /say 7 addressed the group -1000000000007
C8_Witness ==
    /\ last.tgt # None
    /\ LastTgt.token = <<"7">>
    /\ ~LastTgt.is_index
    /\ LastTgt.norm = <<"-", "1", "0", "0", "0", "0", "0", "0", "0", "0", "0", "0", "0", "7">>

\* ------------------------------------------------------------------------
\* Inbox: messages are captured while time passes and reads and writes of the
\* messages file may fail, and admins resolve and clear them
\* ------------------------------------------------------------------------

WMention == BOT_USERNAME \o <<" ", "h", "i">>

CapturePrivateMsgs == {Msg(Stranger, Stranger, WHello, "none", "none")}

CaptureGroupMsgs ==
    {Msg(Stranger, WGroupA, WMention, "none", "none"),
     Msg(Stranger, WGroupA, WHello, "none", "none")}

ResolveMsgs2 ==
    {Private(Admin1, <<CmdResolve, k>>, "none") :
        k \in {<<"m", "1">>}}

ClearInboxMsgs ==
    {Private(Admin1, <<CmdClearInbox>>, "none"), Private(Admin1, <<CmdClearInbox, <<"1">>>>, "none")}

NextInbox ==
    \/ HandleCapturePrivate(CapturePrivateMsgs)
    \/ HandleResolveMessage(ResolveMsgs2)
    \/ HandleClearInbox(ClearInboxMsgs)
    \/ Tick

SpecInbox == Init /\ [][NextInbox]_vars

\* the indices of the records of a messages store
Indices(msgs) == {msgs[i].val.id : i \in 1..Len(msgs)}

\* a capture that stored a record
Captured(l) == l.cmd \in {"capture_private", "capture_group"} /\ l.idx # None /\ l.idx[1] >= 0

\* C10: a record added by add_message_record receives an index strictly
\* greater than every index already in the messages store, and no two records
\* of the store share an index - whatever captures, resolves and clears came
\* before.
C10_IndicesIncrease ==
    [][/\ (Captured(last') /\ messages' # messages) =>
            \A x \in Indices(messages) : last'.idx[1] > x
       /\ Cardinality(Indices(messages')) = Len(messages')]_vars

\* ------------------------------------------------------------------------
\* Access control: a user outside the allow-list tries every private admin
\* command while an admin manages groups and users write to the bot
\* ------------------------------------------------------------------------

\* what a user may type after each private admin command
CommandLine(cmd) ==
    CASE cmd \in {CmdAdmin, CmdListGroups, CmdListUsers, CmdInbox, CmdClearInbox} -> <<cmd>>
      [] cmd = CmdAddGroup -> <<cmd, WGroupB, WName>>
      [] cmd = CmdRemoveGroup -> <<cmd, WGroupA>>
      [] cmd = CmdEditGroupName -> <<cmd, <<"1">>, WName>>
      [] cmd \in {CmdView, CmdResolve} -> <<cmd, <<"m", "1">>>>
      [] cmd = CmdReply -> <<cmd, <<"m", "1">>, WHello>>
      [] cmd = CmdBroadcast -> <<cmd, WHello>>
      [] cmd = CmdTopics -> <<cmd, <<"1">>>>
      [] cmd = CmdSay -> <<cmd, <<"1">>, WHello>>
      [] OTHER -> <<cmd, <<"1">>, WQGeneral>>

\* the command sent by a stranger (replying to a photo) and by an admin
Attempts(cmd) ==
    {Msg(u, u, JoinSp(CommandLine(cmd)), "photo", "none") : u \in {Stranger, Admin1}}

\* the command sent by a stranger only
StrangerAttempts(cmd) == {Msg(Stranger, Stranger, JoinSp(CommandLine(cmd)), "photo", "none")}

\* the number of inbox records the strangers' attempts find
MaxPending == 1

NextAdmin ==
    \/ Len(messages) < MaxPending /\ HandleCapturePrivate(CapturePrivateMsgs)
    \/ HandleAddGroup(AddGroupMsgs \cup StrangerAttempts(CmdAddGroup))
    \/ HandleAdmin(StrangerAttempts(CmdAdmin))
    \/ HandleRemoveGroup(StrangerAttempts(CmdRemoveGroup))
    \/ HandleListGroups(Attempts(CmdListGroups))
    \/ HandleEditGroupName(StrangerAttempts(CmdEditGroupName))
    \/ HandleListUsers(StrangerAttempts(CmdListUsers))
    \/ HandleTopicsPrivate(StrangerAttempts(CmdTopics))
    \/ HandleSay(StrangerAttempts(CmdSay))
    \/ HandleSendPhoto(StrangerAttempts(CmdSendPhoto))
    \/ HandleSendVideo(StrangerAttempts(CmdSendVideo))
    \/ HandleSendDocument(StrangerAttempts(CmdSendDocument))
    \/ HandleForwardPrivate(StrangerAttempts(CmdForward))
    \/ HandleBroadcast(Attempts(CmdBroadcast))
    \/ HandleReplyToUser(StrangerAttempts(CmdReply))
    \/ HandleInbox(StrangerAttempts(CmdInbox))
    \/ HandleViewMessage(StrangerAttempts(CmdView))
    \/ HandleResolveMessage(Attempts(CmdResolve))
    \/ HandleClearInbox(StrangerAttempts(CmdClearInbox))

SpecAdmin == Init /\ [][NextAdmin]_vars

\* the handlers of the private admin-only commands
PrivateAdminCmds ==
    {"admin", "addgroup", "removegroup", "listgroups", "editgroupname", "listusers", "topics",
     "say", "send_photo", "send_video", "send_document", "forward", "broadcast", "reply",
     "inbox", "view", "resolve", "clearinbox"}

\* a private admin-only command ran for a user outside the allow-list
Refused(l) == l.cmd \in PrivateAdminCmds /\ l.from \notin {Admin1, Admin2}

\* the call is a reply with the given tag to the chat the command came from
IsReply(call, l, tag) == call.api = "reply_text" /\ call.to = l.chat /\ call.tag = tag

\* C9 (as stated): a private admin-only command invoked by a user outside the
\* allow-list writes none of the four stores and issues exactly one platform
\* call, the denial reply.
C9_NonAdminOnlyDenied ==
    [][Refused(last') =>
          /\ UNCHANGED <<groups, users, messages, topics>>
          /\ Len(last'.calls) = 1
          /\ IsReply(last'.calls[1], last', "denied")]_vars

\* C9 (amended): the same, except that when sending the denial raises, the
\* handler's except clause may attempt one more reply to the invoker, the
\* generic error reply; nothing else is called and no store is written.
C9_NonAdminDeniedOrErrorReply ==
    [][Refused(last') =>
          /\ UNCHANGED <<groups, users, messages, topics>>
          /\ Len(last'.calls) \in {1, 2}
          /\ IsReply(last'.calls[1], last', "denied")
          /\ Len(last'.calls) = 2 =>
                /\ ~last'.calls[1].ok
                /\ IsReply(last'.calls[2], last', "error")]_vars

\* C9 witness: with a managed group and a pending inbox record in the stores,
\* a stranger's /resolve m1 was answered by the denial alone and the record is
\* still pending
C9_Witness ==
    /\ last.cmd = "resolve"
    /\ last.from = Stranger
    /\ Len(groups) > 0
    /\ Len(messages) > 0
    /\ ~messages[1].val.handled
    /\ Len(last.calls) = 1
    /\ last.calls[1].tag = "denied"
    /\ last.calls[1].ok

\* ------------------------------------------------------------------------
\* Media delivery: the copy helpers are called for every kind of source
\* message, with and without a topic, while the platform accepts or rejects
\* each call and the temporary file may resist its removal
\* ------------------------------------------------------------------------

CopyKinds == {"photo", "video", "document", "audio", "animation", "other"}

CopyChats == {WGroupA, <<"-", "1", "0", "0", "0", "0", "0", "0", "0", "0", "0", "0", "0", "7">>}

CopyTopics == {None, Some(0), Some(5)}

NextCopy ==
    \/ CopyMediaToTarget(CopyKinds, CopyChats, CopyTopics)
    \/ DownloadAndUploadToTopic(CopyKinds, CopyChats, CopyTopics)

SpecCopy == Init /\ [][NextCopy]_vars

\* the positions of the calls of the last operation to one of the given APIs
CallsTo(apis) == {i \in 1..Len(last.calls) : last.calls[i].api \in apis}

UploadApis == {"send_photo", "send_video", "send_document", "send_audio", "send_animation"}

NativeCopies == CallsTo({"copy_message"})

CopySucceeded == \E i \in NativeCopies : last.calls[i].ok

\* the deliveries the platform accepted
Delivered ==
    {i \in CallsTo({"copy_message", "forward_messages"} \cup UploadApis) : last.calls[i].ok}

\* the download-and-upload step ran after every copy attempt
DownloadedAndUploaded ==
    /\ Cardinality(CallsTo({"download_media"})) = 1
    /\ \A d \in CallsTo({"download_media"}) :
          /\ \A i \in NativeCopies : i < d
          /\ last.calls[d].ok => (d + 1 \in CallsTo(UploadApis) /\ Len(last.calls) = d + 1)

\* the download-and-upload step ran and failed
DownloadOrUploadFailed ==
    /\ CallsTo({"download_media"}) # {}
    /\ \E i \in CallsTo({"download_media"} \cup UploadApis) : ~last.calls[i].ok

\* without a topic, copy_message raised a TypeError
CopyTypeError ==
    /\ ~Truthy(last.copy[1].topic_id)
    /\ last.calls[1].api = "copy_message" /\ last.calls[1].tag = "type_error"

UploadFailed == \E i \in CallsTo(UploadApis) : ~last.calls[i].ok

TaskEditMsgs == {Private(Admin1, <<CmdEditGroupName, <<"1">>, WName>>, "none")}

TaskAddGroupMsgs == {Private(Admin1, <<CmdAddGroup, g>>, "none") : g \in {WGroupA, WGroupB}}

TaskClearMsgs == {Private(Admin1, <<CmdClearInbox>>, "none")}

TaskCaptureMsgs == {Msg(Stranger, Stranger, WHello, "none", "none")}

TaskAddTopicMsgs ==
    {Msg(Admin1, WGroupA, JoinSp(<<CmdAddTopic, WQGeneral, <<"9">>>>), "none", "none"),
     Msg(Admin2, WGroupA, JoinSp(<<CmdAddTopic, WArt, <<"3">>>>), "none", "none")}

TaskResolveMsgs == {Msg(Admin1, WGroupA, WQGeneral, "none", "none")}

NextTasks ==
    \/ Dispatch("editgroupname", TaskEditMsgs)
    \/ Dispatch("addgroup", TaskAddGroupMsgs)
    \/ Dispatch("clearinbox", TaskClearMsgs)
    \/ Dispatch("capture_private", TaskCaptureMsgs)
    \/ Dispatch("addtopic", TaskAddTopicMsgs)
    \/ Dispatch("_resolve_topic_id", TaskResolveMsgs)
    \/ \E i \in 1..MaxTasks : Resume(i)

SpecTasks == Init /\ [][NextTasks]_vars

\* the handlers in flight
InFlight == {i \in 1..MaxTasks : tasks[i].cmd # "idle"}

\* handler t has a write of store s on its path, and the content of s lets it
\* reach that write
MayWrite(t, s) ==
    LET Reaches(prog) ==
            /\ \E k \in 1..Len(prog) : prog[k] = Save(s)
            /\ (\E k \in 1..Len(prog) : prog[k] = Check(s)) => GoesOn(t.cmd, t.m, Stores[s])
    IN  Reaches(Steps(t.cmd, t.m))

\* C13: under every interleaving of the handlers at their awaits, every change
\* of a store is the update of one handler in flight applied to the content
\* the store has at that moment: the handler read the store and wrote it back
\* without being suspended in between, so it never writes back a copy that
\* misses what another handler wrote meanwhile.
C13_NoLostUpdate ==
    [][\A s \in {"groups", "users", "messages", "topics"} :
          Stores'[s] # Stores[s] =>
              \E i \in InFlight :
                  /\ MayWrite(tasks[i], s)
                  /\ Stores'[s] = Update(tasks[i].cmd, tasks[i].m, s, Stores[s])]_vars

\* ------------------------------------------------------------------------
\* Removing a managed group that has topic mappings and inbox records
\* ------------------------------------------------------------------------

RemoveMsgs == {Private(Admin1, <<CmdRemoveGroup, g>>, "none") : g \in {WGroupA, WGroupB}}

MentionMsgs == {Msg(Stranger, WGroupA, WMention, "none", "none")}

NextRemove ==
    \/ HandleAddGroup(AddGroupMsgs)
    \/ HandleAddTopic(AddTopicMsgs)
    \/ HandleCaptureGroupMentions(MentionMsgs)
    \/ HandleRemoveGroup(RemoveMsgs)

SpecRemove == Init /\ [][NextRemove]_vars

\* the managed-groups store without the entry of the chat /removegroup names
WithoutNamedGroup(g, l) == remove_managed_group(g, PyInt(PySplit(l.text, 1)[2]))

\* C14: /removegroup changes only the managed-groups store, which loses at
\* most the entry of the named chat: the topic mappings, the users and the
\* inbox records, those of the removed chat included, stay as they were.
C14_RemoveGroupFrame ==
    [][last'.cmd = "removegroup" =>
          /\ topics' = topics
          /\ users' = users
          /\ messages' = messages
          /\ groups' \in {groups, WithoutNamedGroup(groups, last')}]_vars

\* a managed group with a topic mapping and an inbox record has just been
\* removed
C14_Witness ==
    /\ last.cmd = "removegroup"
    /\ \E i \in 1..Len(last.calls) : IsReply(last.calls[i], last, "removed")
    /\ ~DictHas(groups, WGroupA)
    /\ WGroupA \in DOMAIN topics
    /\ \E i \in 1..Len(messages) : messages[i].val.chat_id = WGroupA
    /\ users # <<>>

\* ------------------------------------------------------------------------
\* /addtopic followed by the resolution of the name it mapped
\* ------------------------------------------------------------------------

WTopicName == <<"T", "o", "p", "i", "c", " ", "N", "a", "m", "e">>

Quoted(s) == <<"\"">> \o s \o <<"\"">>

\* the mappings a chat admin asks for: name, topic id and its numeral
RoundTripCases ==
    {[name |-> WGeneral, id |-> 9, digits |-> <<"9">>],
     [name |-> WArt, id |-> 3, digits |-> <<"3">>],
     [name |-> WTopicName, id |-> 7, digits |-> <<"7">>]}

\* /addtopic "<name>" <topic_id>
AddTopicText(c) == JoinSp(<<CmdAddTopic, Quoted(c.name), c.digits>>)

RoundTripAddMsgs == {Msg(Admin1, WGroupA, AddTopicText(c), "none", "none") : c \in RoundTripCases}

\* the same name quoted or not, as typed or in lower case
Spellings(name) == {name, Quoted(name), PyLower(name), Quoted(PyLower(name))}

RoundTripSendMsgs ==
    {Private(Admin1, <<CmdSendPhoto, <<"1">>, k>>, "none") :
        k \in UNION {Spellings(c.name) : c \in RoundTripCases}}

NextRoundTrip ==
    \/ HandleAddGroup(AddGroupMsgs)
    \/ HandleAddTopic(RoundTripAddMsgs)
    \/ HandleSendPhoto(RoundTripSendMsgs)

SpecRoundTrip == Init /\ [][NextRoundTrip]_vars

\* the handler found the sender to be an administrator of the chat
PassedAdminCheck(l) == \A i \in 1..Len(l.calls) : ~IsReply(l.calls[i], l, "denied")

\* C15: after a chat admin sent /addtopic "<name>" <topic_id> in a group, for a
\* name of one or of several words, the mapping name -> topic_id is stored for
\* that chat, and _resolve_topic_id for that chat and that name, quoted or not
\* and in any letter case, returns topic_id whatever the platform answers.
C15_AddTopicRoundTrip ==
    [][\A c \in RoundTripCases :
          (last'.cmd = "addtopic" /\ last'.text = AddTopicText(c) /\ PassedAdminCheck(last')) =>
              /\ get_topic_id_by_name(topics', last'.chat, c.name) = Some(c.id)
              /\ \A token \in Spellings(c.name), e \in LiveAnswers \X BOOLEAN :
                     _resolve_topic_id(topics', last'.chat, token, e[1], e[2]).result
                         = Some(c.id)]_vars

\* ------------------------------------------------------------------------
\* /say with a text of one or several words and no topic argument
\* ------------------------------------------------------------------------

WWorld == <<"w", "o", "r", "l", "d">>

\* the texts an admin asks to send, and the target token
SayCases ==
    {[target |-> t, text |-> JoinSp(ws)] :
        t \in {<<"1">>, WGroupA},
        ws \in {<<WHello>>, <<WHello, WWorld>>, <<WHello, WWorld, WArt>>}}

\* /say <index_or_id> <text>
SayText(c) == JoinSp(<<CmdSay, c.target, c.text>>)

SayPlainMsgs == {Private(Admin1, <<CmdSay, c.target, c.text>>, "none") : c \in SayCases}

NextSay ==
    \/ HandleAddGroup(AddGroupMsgs)
    \/ HandleAddTopic(AddTopicMsgs)
    \/ HandleSay(SayPlainMsgs)

SpecSay == Init /\ [][NextSay]_vars

\* the send_message calls of the last handler
SayCalls == {i \in 1..Len(last.calls) : last.calls[i].api = "send_message"}

\* C16: /say <index_or_id> <text> with no topic argument makes one send of the
\* whole text that follows the target token, of one word or of several, to the
\* target group with no topic, and replies with no topic warning.
C16_SayWholeText ==
    \A c \in SayCases :
        (last.cmd = "say" /\ last.text = SayText(c)) =>
            /\ Cardinality(SayCalls) = 1
            /\ \A i \in SayCalls :
                   /\ last.calls[i].body = c.text
                   /\ last.calls[i].thread = None
                   /\ last.calls[i].to = TargetOf(c.target, groups).norm
            /\ \A i \in 1..Len(last.calls) : ~IsReply(last.calls[i], last, "warn_topic")

\* ------------------------------------------------------------------------
\* /clearinbox with and without a count
\* ------------------------------------------------------------------------

\* the pending records of the store msgs, by position
Pending(msgs) == {i \in 1..Len(msgs) : ~msgs[i].val.handled}

\* record a was captured after record b
Newer(a, b) == a.date > b.date \/ (a.date = b.date /\ a.id > b.id)

\* the last handler was /clearinbox and it went as far as its confirmation
ClearedBy(l) ==
    l.cmd = "clearinbox" /\ \E i \in 1..Len(l.calls) : IsReply(l.calls[i], l, "cleared")

\* the records a step marks handled
Flipped == {i \in Pending(messages) : messages'[i].val.handled}

\* C17: /clearinbox N with N > 0 (here N = 1) marks handled exactly the N most
\* recent pending records, /clearinbox without a count marks every pending
\* record, no other record and no other field changes, and the records marked
\* are no longer pending, so /inbox does not list them.
C17_ClearInboxMostRecent ==
    [][(ClearedBy(last') /\ messages' # messages) =>
          /\ Len(messages') = Len(messages)
          /\ \A i \in 1..Len(messages) :
                 messages'[i] = IF i \in Flipped THEN [messages[i] EXCEPT !.val.handled = TRUE]
                                ELSE messages[i]
          /\ Flipped \cap Pending(messages') = {}
          /\ last'.text = JoinSp(<<CmdClearInbox>>) => Flipped = Pending(messages)
          /\ last'.text = JoinSp(<<CmdClearInbox, <<"1">>>>) =>
                 /\ Cardinality(Flipped) = 1
                 /\ \A a \in Flipped, b \in Pending(messages) \ Flipped :
                        Newer(messages[a].val, messages[b].val)]_vars

\* ------------------------------------------------------------------------
\* /broadcast to the managed groups
\* ------------------------------------------------------------------------

BroadcastTexts == {WHello, JoinSp(<<WHello, WWorld>>)}

BroadcastMsgs ==
    {Private(Admin1, <<CmdBroadcast, t>>, "none") : t \in BroadcastTexts}
    \cup {Private(Admin1, <<CmdBroadcast>>, "none"), Private(Stranger, <<CmdBroadcast, WHello>>, "none")}

NextBroadcast ==
    \/ HandleAddGroup(TargetAddMsgs)
    \/ HandleRemoveGroup(TargetRemoveMsgs)
    \/ HandleBroadcast(BroadcastMsgs)

SpecBroadcast == Init /\ [][NextBroadcast]_vars

IsSendMessage(call) == call.api = "send_message"

\* the send_message calls of the last handler, in order
LastSends == SelectSeq(last.calls, IsSendMessage)

\* the sends the platform accepted
AcceptedSends == {i \in 1..Len(LastSends) : LastSends[i].ok}

\* C18: /broadcast <text> by an admin makes, for every group of the
\* managed-groups store in turn, exactly one attempt to send the text to its
\* normalized id, whether or not earlier attempts failed; the sent count it
\* reports is the number of accepted sends, and with the number of failed
\* groups it adds up to the number of managed groups.
C18_BroadcastReachesEveryGroup ==
    \A t \in BroadcastTexts :
        (last.cmd = "broadcast" /\ is_admin(last.from)
         /\ last.text = JoinSp(<<CmdBroadcast, t>>)) =>
            /\ Len(LastSends) = Len(groups)
            /\ \A g \in 1..Len(groups) :
                   /\ LastSends[g].to = _normalize_group_id(groups[g].key).val
                   /\ LastSends[g].body = t
                   /\ LastSends[g].thread = None
            /\ Len(groups) > 0 =>
                   /\ last.res # None
                   /\ last.res[1].sent = Cardinality(AcceptedSends)
                   /\ last.res[1].sent + last.res[1].failed = Len(groups)

\* a broadcast to two groups whose first send failed and whose second got
\* through
C18_Witness ==
    /\ last.cmd = "broadcast"
    /\ Len(groups) = 2
    /\ Len(LastSends) = 2
    /\ ~LastSends[1].ok
    /\ LastSends[2].ok
    /\ last.res[1].sent = 1

\* ------------------------------------------------------------------------
\* Media and forward commands aimed at managed and unmanaged groups
\* ------------------------------------------------------------------------

\* target tokens: an index, a bare id kept as a key, a full id, an unknown id
ManagedTargets == {<<"1">>, WGroupB, WGroupA, WGroupC}

ManagedAddMsgs == {Private(Admin1, <<CmdAddGroup, g>>, "none") : g \in {WGroupA, WGroupB}}

ManagedSendMsgs(cmd, kind) ==
    {Msg(Admin1, Admin1, JoinSp(<<cmd, t>>), kind, "none") : t \in ManagedTargets}

ManagedForwardGroupMsgs ==
    {Msg(Admin1, WGroupA, JoinSp(<<CmdForward, t>>), "photo", "none") : t \in ManagedTargets}

NextManaged ==
    \/ HandleAddGroup(ManagedAddMsgs)
    \/ HandleRemoveGroup(RemoveMsgs)
    \/ HandleSendPhoto(ManagedSendMsgs(CmdSendPhoto, "photo"))
    \/ HandleSendVideo(ManagedSendMsgs(CmdSendVideo, "video"))
    \/ HandleSendDocument(ManagedSendMsgs(CmdSendDocument, "document"))
    \/ HandleForwardPrivate(ManagedSendMsgs(CmdForward, "photo"))
    \/ HandleForwardGroup(ManagedForwardGroupMsgs)

SpecManaged == Init /\ [][NextManaged]_vars

ManagedKey(k) == \E i \in 1..Len(groups) : groups[i].key = k

\* the deliveries of the last handler
Deliveries == {i \in 1..Len(last.calls) : last.calls[i].api \in OutboundApis}

\* the last handler was a media or forward command that resolved a target
ResolvedTarget ==
    /\ last.cmd \in {"send_photo", "send_video", "send_document", "forward", "forward_group"}
    /\ last.tgt # None
    /\ ~LastTgt.exc

\* C19: /send_photo, /send_video, /send_document and /forward (private and
\* group) deliver only to managed groups: when neither the resolved key nor
\* its normalized id is a key of the managed-groups store the handler replies
\* "not found" and delivers nothing, and every delivery goes to the normalized
\* id of a target that is managed in one of these two ways.
C19_DeliversOnlyToManaged ==
    ResolvedTarget =>
        /\ ~(ManagedKey(LastTgt.gid_str) \/ ManagedKey(PyStr(LastTgt.norm))) =>
               /\ \E i \in 1..Len(last.calls) : IsReply(last.calls[i], last, "not_found")
               /\ Deliveries = {}
        /\ \A i \in Deliveries :
               /\ ManagedKey(LastTgt.gid_str) \/ ManagedKey(PyStr(LastTgt.norm))
               /\ last.calls[i].to = LastTgt.norm

\* with a group managed, a forward aimed at an id that is no key of the store
\* was answered "not found"
C19_Witness ==
    /\ ResolvedTarget
    /\ last.cmd = "forward_group"
    /\ groups # <<>>
    /\ LastTgt.token = WGroupC
    /\ \E i \in 1..Len(last.calls) : IsReply(last.calls[i], last, "not_found")

\* ------------------------------------------------------------------------
\* Group commands: members of every standing use the commands guarded by
\* _is_chat_admin in a managed chat, while get_chat_member answers or raises
\* ------------------------------------------------------------------------

CmdRestrict == <<"/", "r", "e", "s", "t", "r", "i", "c", "t">>

CmdUnrestrict == <<"/", "u", "n", "r", "e", "s", "t", "r", "i", "c", "t">>

CmdUnban == <<"/", "u", "n", "b", "a", "n">>

CmdGroupInfo == <<"/", "g", "r", "o", "u", "p", "i", "n", "f", "o">>

\* a command of one word sent in group A by a user outside the allow-list,
\* replying to a message or not
InGroup(cmd, replies) == {Msg(Stranger, WGroupA, cmd, r, "none") : r \in replies}

GuardedUnbanMsgs ==
    InGroup(CmdUnban, {"none", "photo"}) \cup
    {Msg(Stranger, WGroupA, JoinSp(<<CmdUnban, <<"@", "b", "o", "b">> >>), "none", "none")}

GuardedAddTopicMsgs ==
    {Msg(Stranger, WGroupA, JoinSp(<<CmdAddTopic, WQGeneral, <<"9">> >>), "none", "none")}

GuardedForwardMsgs ==
    {Msg(Stranger, WGroupA, JoinSp(<<CmdForward, <<"1">>, WTopic5>>), "photo", "none")}

NextGuarded ==
    \/ HandleAddGroup(AddGroupMsgs)
    \/ HandleGroupCommand("restrict", InGroup(CmdRestrict, {"none", "photo"}))
    \/ HandleGroupCommand("unrestrict", InGroup(CmdUnrestrict, {"none", "photo"}))
    \/ HandleGroupCommand("unban", GuardedUnbanMsgs)
    \/ HandleGroupCommand("addtopic", GuardedAddTopicMsgs)
    \/ HandleGroupCommand("topics_group", InGroup(CmdTopics, {"none"}))
    \/ HandleGroupCommand("groupinfo", InGroup(CmdGroupInfo, {"none"}))
    \/ HandleGroupCommand("forward_group", GuardedForwardMsgs)
    \/ HandleGroupCommand("send_photo_group", InGroup(CmdSendPhoto, {"none", "photo"}))
    \/ HandleGroupCommand("send_video_group", InGroup(CmdSendVideo, {"video"}))
    \/ HandleGroupCommand("send_document_group", InGroup(CmdSendDocument, {"document"}))

SpecGuarded == Init /\ [][NextGuarded]_vars

GuardedCmds ==
    {"restrict", "unrestrict", "unban", "addtopic", "topics_group", "groupinfo",
     "forward_group", "send_photo_group", "send_video_group", "send_document_group"}

\* the command is a guarded one and its membership query raised or was
\* answered with a status that _is_chat_admin does not accept
FailedClosed(l) ==
    /\ l.cmd \in GuardedCmds
    /\ l.member # None
    /\ l.member[1].raised \/ ~_is_chat_admin(l.member[1])

\* C20 (as stated): when the membership query raises, or _is_chat_admin
\* otherwise returns False, a guarded group command writes none of the four
\* stores and issues exactly one platform call, the denial reply.
C20_FailClosedOnlyDenied ==
    [][FailedClosed(last') =>
          /\ UNCHANGED <<groups, users, messages, topics>>
          /\ Len(last'.calls) = 1
          /\ IsReply(last'.calls[1], last', "denied")]_vars

\* C20 (amended): the same, except that when sending the denial raises, the
\* handler's outer except clause attempts one more reply to the chat, the
\* generic error reply; no restrict, unban, copy or forward call is issued
\* and no store is written.
C20_FailClosedDeniedOrErrorReply ==
    [][FailedClosed(last') =>
          /\ UNCHANGED <<groups, users, messages, topics>>
          /\ Len(last'.calls) \in {1, 2}
          /\ IsReply(last'.calls[1], last', "denied")
          /\ Len(last'.calls) = 2 =>
                /\ ~last'.calls[1].ok
                /\ IsReply(last'.calls[2], last', "error")]_vars

\* C20 witness: in a managed chat, /restrict replying to a member's message,
\* sent while the membership query raised, was answered by the denial alone
C20_Witness ==
    /\ last.cmd = "restrict"
    /\ last.reply = "photo"
    /\ last.member # None
    /\ last.member[1].raised
    /\ Len(groups) > 0
    /\ Len(last.calls) = 1
    /\ last.calls[1].tag = "denied"
    /\ last.calls[1].ok

\* ------------------------------------------------------------------------
\* Service messages: the bot and other users are added to chats, managed or
\* not, by administrators and by other members
\* ------------------------------------------------------------------------

\* the users a service message announces, as the platform describes them: a
\* username is the handle without the leading @
BotUser == [is_bot |-> TRUE, username |-> Tail(BOT_USERNAME)]

OtherBot == [is_bot |-> TRUE, username |-> <<"H", "e", "l", "p", "B", "o", "t">>]

Human == [is_bot |-> FALSE, username |-> <<"b", "o", "b">>]

AutoEvents ==
    {[m |-> Msg(from, chat, None, "none", "none"), title |-> title, new_chat_members |-> ms] :
        from \in {Stranger, None}, chat \in {WGroupA, WGroupB}, title \in {WName, <<>>},
        ms \in {<<>>, <<BotUser>>, <<Human, BotUser>>, <<OtherBot>>}}

AutoAddMsgs ==
    {Private(Admin1, <<CmdAddGroup, WGroupA, WArt>>, "none"),
     Private(Admin1, <<CmdAddGroup, WGroupB>>, "none")}

NextAuto ==
    \/ HandleAddGroup(AutoAddMsgs)
    \/ HandleRemoveGroup(RemoveMsgs)
    \/ HandleAutoRegister(AutoEvents)

SpecAuto == Init /\ [][NextAuto]_vars

\* the service message announces that the bot itself joined the chat
BotAdded(l) ==
    \E i \in 1..Len(l.event[1].new_chat_members) : l.event[1].new_chat_members[i] = BotUser

\* the user who sent the service message is an administrator of its chat
AdderIsChatAdmin(l) == l.from # None /\ _is_chat_admin(l.member[1])

\* message.chat.title or f"Group {group_id}"
RegisteredName(l) ==
    IF l.event[1].title # <<>> THEN l.event[1].title ELSE DefaultGroupName(l.chat)

\* C21: on a service message announcing that the bot was added to a chat, the
\* chat is appended to the managed groups, under its id and title, when the
\* user who added the bot is an administrator of the chat and the chat is not
\* yet managed; in every other case (the adder is not a chat admin, the chat
\* is already managed, the message announces something else) the managed
\* groups keep every entry, name and position as they were.
C21_AutoRegisterAddsForChatAdminOnly ==
    [][last'.cmd = "auto_register" =>
          IF BotAdded(last') /\ AdderIsChatAdmin(last') /\ ~DictHas(groups, PyStr(last'.chat))
          THEN groups' = Append(groups, [key |-> PyStr(last'.chat),
                                         val |-> [name |-> RegisteredName(last')]])
          ELSE groups' = groups]_vars

\* ------------------------------------------------------------------------
\* Private messages of every kind: texts, unknown commands and media without
\* text, from users, from other bots and from the admins, while the messages
\* file may resist being read or written
\* ------------------------------------------------------------------------

WUnknownCmd == <<"/", "h", "i">>

CaptureAnyMsgs ==
    {Msg(from, from, text, "none", "none") :
        from \in {Stranger, Admin1, BotAccount}, text \in {WHello, WUnknownCmd, <<>>}}

NextCapture ==
    \/ HandleCapturePrivate(CaptureAnyMsgs)
    \/ HandleClearInbox(ClearInboxMsgs)
    \/ Tick

SpecCapture == Init /\ [][NextCapture]_vars

\* the text does not start with '/', the sender is no bot and no admin
Capturable(l) ==
    /\ ~PyStartsWith(l.text, <<"/">>)
    /\ ~is_bot(l.from)
    /\ ~is_admin(l.from)

\* one notification was attempted for every configured admin, in order
NotifiedEveryAdmin(l) ==
    /\ Len(l.calls) = Len(ADMINS)
    /\ \A i \in 1..Len(ADMINS) :
           l.calls[i].api = "send_message" /\ l.calls[i].to = ADMINS[i]

\* C22: a private message that reaches capture_private_messages creates an
\* inbox record if and only if its text does not start with '/', its sender is
\* not a bot and its sender is not an admin; for such a message exactly one
\* record, holding its sender and text, is added to the records already stored,
\* and one notification is attempted for every configured admin whether or not
\* the notifications before it were accepted.
C22_CaptureAddsOneRecordAndNotifies ==
    [][(last'.cmd = "capture_private" /\ clock' = clock) =>
          IF Capturable(last')
          THEN /\ Len(messages') = Len(messages) + 1
               /\ \A i \in 1..Len(messages) : messages'[i] = messages[i]
               /\ messages'[Len(messages')].val.from_id = last'.from
               /\ messages'[Len(messages')].val.text = last'.text
               /\ NotifiedEveryAdmin(last')
          ELSE messages' = messages]_vars

\* ------------------------------------------------------------------------
\* /reply with a numeric target, while users with small and large ids are
\* recorded at different times (as chat admins asking for /groupinfo)
\* ------------------------------------------------------------------------

\* a user whose id is as small as an index of the recent-users list
SmallIdUser == <<"1">>

ReplyRecordMsgs ==
    {Msg(from, WGroupA, CmdGroupInfo, "none", "none") : from \in {SmallIdUser, Stranger}}

NumericTargets == {<<"0">>, <<"1">>, <<"2">>, <<"3">>, Stranger}

ReplyNumericMsgs ==
    {Private(Admin1, <<CmdReply, t, WHello>>, "none") : t \in NumericTargets}

NextReply ==
    \/ HandleGroupCommand("groupinfo", ReplyRecordMsgs)
    \/ HandleReplyToUser(ReplyNumericMsgs)
    \/ Tick

SpecReply == Init /\ [][NextReply]_vars

\* the numeric target of the /reply command
TargetOfReply(l) == PySplit(l.text, 2)[2]

\* the direct messages the handler sent or tried to send
DirectMessages(l) == SelectSeq(l.calls, LAMBDA c : c.api = "send_message")

\* user_id is at place n when the users of the store u are put in descending
\* order of last_seen, whatever the order among users seen at the same time
NthRecent(u, n, user_id) ==
    \E i \in 1..Len(u) :
        /\ u[i].val.id = user_id
        /\ Cardinality({j \in 1..Len(u) : u[j].val.last_seen > u[i].val.last_seen}) < n
        /\ Cardinality({j \in 1..Len(u) : u[j].val.last_seen >= u[i].val.last_seen}) >= n

\* what C23 says of a /reply step with numeric target n, given the direct
\* messages expected when n names a user
ReplyNumericRule(sent) ==
    LET n == TargetOfReply(last')
        dms == DirectMessages(last')
    IN  IF DictHas(users, n)
        THEN sent => Len(dms) = 1 /\ dms[1].to = n
        ELSE IF DigitsValue(n) >= 1 /\ DigitsValue(n) <= Len(users)
        THEN sent => Len(dms) = 1 /\ NthRecent(users, DigitsValue(n), dms[1].to)
        ELSE /\ Len(dms) = 0
             /\ IsReply(last'.calls[1], last', "unresolved")

\* C23 (as stated): /reply <n> <text> by an admin with a numeric n sends the
\* DM to user n when n is the id of a recorded user, even if n is also an
\* index; otherwise to the n-th user in descending last_seen order when
\* 1 <= n <= number of recorded users; otherwise it sends no DM and replies
\* that the user could not be resolved.
C23_ReplyNumericTarget ==
    [][(last'.cmd = "reply" /\ clock' = clock) => ReplyNumericRule(TRUE)]_vars

\* C23 (amended): the same, except that the DM is sent only after the notice
\* "Sending message to ..." reached the admin; when that notice raises, no DM
\* is sent and the handler attempts its error reply.
C23_ReplyNumericTargetAfterNotice ==
    [][(last'.cmd = "reply" /\ clock' = clock) =>
          /\ ReplyNumericRule(last'.calls[1].ok)
          /\ ~last'.calls[1].ok =>
                /\ DirectMessages(last') = <<>>
                /\ IsReply(last'.calls[Len(last'.calls)], last', "error")]_vars

\* C23 witness: users 1 and 42 are recorded, 42 seen later than 1, so that 1
\* is not the first of the recent users; /reply 1 sent the DM to user 1
C23_Witness ==
    /\ last.cmd = "reply"
    /\ TargetOfReply(last) = SmallIdUser
    /\ DictHas(users, SmallIdUser)
    /\ DictHas(users, Stranger)
    /\ users[DictPos(users, Stranger)].val.last_seen
           > users[DictPos(users, SmallIdUser)].val.last_seen
    /\ \E i \in 1..Len(last.calls) :
           /\ last.calls[i].api = "send_message"
           /\ last.calls[i].to = SmallIdUser
           /\ last.calls[i].ok

====
